---- MODULE Spec2Model ----
(***************************************************************************)
(* Policy engine, approval ledger, skill context and audit logger of the   *)
(* local assistant backend (backend/app/policies.py, skills.py, audit.py). *)
(*                                                                         *)
(* A Python str is a sequence of one-character strings; a path is parsed   *)
(* into components and resolved against the symlink table, as pathlib      *)
(* does; a datetime is either absent, timezone-aware or naive.             *)
(***************************************************************************)
EXTENDS Integers, Sequences, FiniteSets, TLC

VARIABLES
    config,      \* PermissionConfig of the stored AppConfig
    approvals,   \* ApprovalStore._records, in insertion order
    clock,       \* datetime.now(tz=utc), in ticks
    symlinks,    \* target of the symbolic link at LinkAt
    decision,    \* the last policy evaluation and what it returned
    files,       \* the file system: resolved path -> whether it exists and its data
    audit_log,   \* events handed to AuditLogger.log by the skill context, in order
    spawned,     \* argument vectors executed as child processes, in order
    call,        \* the skill-context call in flight: operation, position, locals
    redact_patterns,  \* AuditLogger._compiled: the configured rules, in order
    payload,     \* the mapping the caller hands to AuditLogger.log
    redacted,    \* what log handed to json.dumps at its last call
    passes,      \* results of applying _redact to the payload over and over
    log_lines,   \* audit_log.jsonl: the lines appended, in order
    log_calls,   \* the AuditLogger.log calls made: who called and how each ended
    skills_dir,  \* the skills directory: its sub-directories in enumeration order
    manager,     \* the SkillManager: whether construction ended, and _manifests
    invocations, \* the SkillManager.run calls made, each with its position and locals
    factory_calls,  \* the context_factory calls made and the objects each built
    ledger_calls,  \* the ApprovalStore calls made by requests, each with what it returned
    loop,          \* the event loop: the requests taken in and the one holding its thread
    config_store,  \* config.json, app.state.config and the last /config exchange
    writers,       \* two write_file calls in flight at once: position and locals of each
    scheduler,     \* run_scheduler: its position and locals, the wall clock, scheduler_state.json
    http           \* the HTTP exchanges handled, each with what its handler saw and did

vars == <<config, approvals, clock, symlinks, decision, files, audit_log, spawned, call,
          redact_patterns, payload, redacted, passes, log_lines, log_calls,
          skills_dir, manager, invocations, factory_calls, ledger_calls,
          loop, config_store, writers, scheduler, http>>

skillVars == <<files, audit_log, spawned, call>>

auditVars == <<redact_patterns, payload, redacted, passes, log_lines, log_calls>>

managerVars == <<skills_dir, manager, invocations, factory_calls>>

serverVars == <<loop, config_store, writers, scheduler, http>>

----------------------------------------------------------------------------
(* Bounds *)

MaxRecords == 2     \* grants accepted while exploring
MaxTime == 2        \* clock ticks explored
MaxCalls == 2       \* skill-context calls made one after the other
MaxRules == 2       \* rules in a configured redaction list
MaxChunks == 2      \* chunks a logged text is made of
MaxDepth == 2       \* nesting of a logged payload
MaxLines == 1       \* calls of AuditLogger.log
MaxPasses == 2      \* applications of _redact to its own result
MaxSkills == 2      \* sub-directories of the skills directory
MaxLedgerCalls == 3 \* ApprovalStore calls made by the concurrent requests
MaxLogCalls == 3    \* AuditLogger.log calls made by the concurrent callers
MaxRuns == 2        \* SkillManager.run calls made

----------------------------------------------------------------------------
(* Strings and paths *)

\* a join that hands back the first item alone
JoinStr_first(items, sep) == IF Len(items) = 0 THEN <<>> ELSE items[1]

RECURSIVE JoinStr(_, _)
\* sep.join(items)
JoinStr(items, sep) ==
    IF Len(items) = 0 THEN <<>>
    ELSE IF Len(items) = 1 THEN items[1]
    ELSE items[1] \o sep \o JoinStr(Tail(items), sep)

StartsWith(s, p) == Len(p) <= Len(s) /\ SubSeq(s, 1, Len(p)) = p

\* components kept by pathlib: empty and "." components are dropped
KeepPart(parts, cur) == IF cur = <<>> \/ cur = <<".">> THEN parts ELSE Append(parts, cur)

RECURSIVE SplitParts(_, _, _, _)
SplitParts(s, i, parts, cur) ==
    IF i > Len(s) THEN KeepPart(parts, cur)
    ELSE IF s[i] = "/" THEN SplitParts(s, i + 1, KeepPart(parts, cur), <<>>)
    ELSE SplitParts(s, i + 1, parts, Append(cur, s[i]))

\* Path(s): whether it is absolute, and its components
PurePath(s) == [abs |-> Len(s) > 0 /\ s[1] = "/", parts |-> SplitParts(s, 1, <<>>, <<>>)]

Cwd == << <<"w">> >>               \* working directory of the server process
LinkAt == << <<"a">>, <<"k">> >>   \* the one symbolic link of the file system, /a/k
DirAD == << <<"a">>, <<"d">> >>    \* /a/d
DirB == << <<"b">> >>              \* /b
LinkTargets == {DirAD, DirB}

RECURSIVE Walk(_, _, _, _)
\* os.path.realpath: ".." pops, a component that is a link is replaced by its target
Walk(parts, i, cur, links) ==
    IF i > Len(parts) THEN cur
    ELSE IF parts[i] = <<".", ".">>
         THEN Walk(parts, i + 1, IF cur = <<>> THEN <<>> ELSE SubSeq(cur, 1, Len(cur) - 1), links)
    ELSE LET nxt == Append(cur, parts[i])
         IN  Walk(parts, i + 1, IF nxt = LinkAt THEN links ELSE nxt, links)

\* the file a path leads to under the current link: absolute, symlink-free components
FileAt(p, links) == Walk(IF p.abs THEN p.parts ELSE Cwd \o p.parts, 1, <<>>, links)

\* Path(s).resolve()
Resolve(s, links) == FileAt(PurePath(s), links)

\* the comparison done on the path text instead of on the components
is_relative_to_text(self, other) ==
    StartsWith(JoinStr(self, <<"/">>), JoinStr(other, <<"/">>))

\* PurePath.is_relative_to on resolved paths: other is self or one of its parents
is_relative_to(self, other) ==
    Len(other) <= Len(self) /\ SubSeq(self, 1, Len(other)) = other

----------------------------------------------------------------------------
(* Approval ledger *)

NoExpiry == [kind |-> "none", t |-> 0]
Aware(t) == [kind |-> "aware", t |-> t]
Naive(t) == [kind |-> "naive", t |-> t]

ApprovalRecord(scope, expires_at) == [scope |-> scope, expires_at |-> expires_at]

\* ApprovalStore.add
add(records, scope, expires_at) == Append(records, ApprovalRecord(scope, expires_at))

\* the comparison with the expiry test left out
ExpiredBefore_never(expires_at, now) ==
    IF expires_at.kind = "naive" THEN "TypeError" ELSE "false"

\* record.expires_at < now, now being timezone-aware: a naive operand raises TypeError
ExpiredBefore(expires_at, now) ==
    IF expires_at.kind = "naive" THEN "TypeError"
    ELSE IF expires_at.t < now THEN "true" ELSE "false"

RECURSIVE is_approved_from(_, _, _, _)
is_approved_from(records, i, now, scope) ==
    IF i > Len(records) THEN "false"
    ELSE IF records[i].scope # scope THEN is_approved_from(records, i + 1, now, scope)
    ELSE IF records[i].expires_at.kind = "none" THEN "true"
    ELSE LET lt == ExpiredBefore(records[i].expires_at, now)
         IN  IF lt = "TypeError" THEN "TypeError"
             ELSE IF lt = "true" THEN is_approved_from(records, i + 1, now, scope)
             ELSE "true"

\* ApprovalStore.is_approved: "true", "false", or "TypeError" when the scan raises
is_approved(records, now, scope) == is_approved_from(records, 1, now, scope)

----------------------------------------------------------------------------
(* Policy engine *)

Scope(kind, target) == <<kind, ":">> \o target

ApprovalDecision(allowed, reason, scope, requires_approval) ==
    [raised |-> FALSE, allowed |-> allowed, reason |-> reason, scope |-> scope,
     requires_approval |-> requires_approval]

\* the evaluation did not return: the exception left the check
Raised(scope) ==
    [raised |-> TRUE, allowed |-> FALSE, reason |-> "TypeError", scope |-> scope,
     requires_approval |-> FALSE]

\* the ledger stage shared by the three checks
LedgerStage(records, now, scope, yes, no) ==
    LET a == is_approved(records, now, scope)
    IN  IF a = "TypeError" THEN Raised(scope)
        ELSE IF a = "true" THEN ApprovalDecision(TRUE, yes, scope, FALSE)
        ELSE ApprovalDecision(FALSE, no, scope, TRUE)

InAllowlist(resolved, allowlist, links) ==
    \E k \in 1..Len(allowlist) : is_relative_to(resolved, Resolve(allowlist[k], links))

\* a check whose denial asks for approval only when the configuration says so
_check_path_by_flag(cfg, records, now, links, path, allowlist, scope_prefix) ==
    IF ~cfg.tools_enabled
    THEN ApprovalDecision(FALSE, "Tools disabled", Scope(scope_prefix, path),
                          cfg.require_approval)
    ELSE IF InAllowlist(Resolve(path, links), allowlist, links)
    THEN ApprovalDecision(TRUE, "Allowlisted path", Scope(scope_prefix, path), FALSE)
    ELSE LedgerStage(records, now, Scope(scope_prefix, path), "Approved path", "Path not allowlisted")

_check_path(cfg, records, now, links, path, allowlist, scope_prefix) ==
    IF ~cfg.tools_enabled
    THEN ApprovalDecision(FALSE, "Tools disabled", Scope(scope_prefix, path), TRUE)
    ELSE IF InAllowlist(Resolve(path, links), allowlist, links)
    THEN ApprovalDecision(TRUE, "Allowlisted path", Scope(scope_prefix, path), FALSE)
    ELSE LedgerStage(records, now, Scope(scope_prefix, path), "Approved path", "Path not allowlisted")

check_file_read(cfg, records, now, links, path) ==
    _check_path(cfg, records, now, links, path, cfg.file_read_allowlist, "file_read")

check_file_write(cfg, records, now, links, path) ==
    _check_path(cfg, records, now, links, path, cfg.file_write_allowlist, "file_write")

InList(x, list) == \E k \in 1..Len(list) : list[k] = x

\* check_terminal with the terminal_enabled switch left out of the gate
check_terminal_tools_only(cfg, records, now, command) ==
    IF ~cfg.tools_enabled
    THEN ApprovalDecision(FALSE, "Terminal access disabled", Scope("terminal", command), TRUE)
    ELSE IF InList(command, cfg.terminal_allowlist)
    THEN ApprovalDecision(TRUE, "Allowlisted command", Scope("terminal", command), FALSE)
    ELSE LedgerStage(records, now, Scope("terminal", command), "Approved command", "Command not allowlisted")

check_terminal(cfg, records, now, command) ==
    IF ~cfg.tools_enabled \/ ~cfg.terminal_enabled
    THEN ApprovalDecision(FALSE, "Terminal access disabled", Scope("terminal", command), TRUE)
    ELSE IF InList(command, cfg.terminal_allowlist)
    THEN ApprovalDecision(TRUE, "Allowlisted command", Scope("terminal", command), FALSE)
    ELSE LedgerStage(records, now, Scope("terminal", command), "Approved command", "Command not allowlisted")

check_skill(cfg, records, now, skill_name) ==
    IF ~cfg.tools_enabled
    THEN ApprovalDecision(FALSE, "Tools disabled", Scope("skill", skill_name), TRUE)
    ELSE IF InList(skill_name, cfg.skills_enabled)
    THEN ApprovalDecision(TRUE, "Skill enabled", Scope("skill", skill_name), FALSE)
    ELSE LedgerStage(records, now, Scope("skill", skill_name), "Skill approved", "Skill not enabled")

----------------------------------------------------------------------------
(* Redaction patterns: the regular expressions of AuditConfig.redact_patterns *)
(* as sequences of quantified character classes, matched greedily with        *)
(* backtracking, as the re module does                                        *)

LowerCase == <<"a", "b", "c", "d", "e", "f", "g", "h", "i", "j", "k", "l", "m",
               "n", "o", "p", "q", "r", "s", "t", "u", "v", "w", "x", "y", "z">>
UpperCase == <<"A", "B", "C", "D", "E", "F", "G", "H", "I", "J", "K", "L", "M",
               "N", "O", "P", "Q", "R", "S", "T", "U", "V", "W", "X", "Y", "Z">>
Digits == {"0", "1", "2", "3", "4", "5", "6", "7", "8", "9"}
Letters == { LowerCase[i] : i \in 1..26 } \cup { UpperCase[i] : i \in 1..26 }
WhiteSpace == {" ", "\t", "\n", "\r", "\f"}                     \* \s

\* (?i): a letter matches in either case
CaseFold(c) ==
    {c} \cup { UpperCase[i] : i \in { j \in 1..26 : LowerCase[j] = c } }
        \cup { LowerCase[i] : i \in { j \in 1..26 : UpperCase[j] = c } }

Unbounded == 0 - 1

\* one quantified class: the characters it takes (or refuses, when neg) and how many
Elem(neg, set, min, max) == [neg |-> neg, set |-> set, min |-> min, max |-> max]

InClass(c, e) == IF e.neg THEN c \notin e.set ELSE c \in e.set

\* a literal word under (?i)
LitI(word) == [i \in 1..Len(word) |-> Elem(FALSE, CaseFold(word[i]), 1, 1)]

SpaceStar == Elem(FALSE, WhiteSpace, 0, Unbounded)              \* \s*
ColonOrEquals == Elem(FALSE, {":", "="}, 1, 1)                  \* [:=]

\* (?i)api[_-]?key\s*[:=]\s*([A-Za-z0-9_-]{8,})
PatApiKey ==
    LitI(<<"a", "p", "i">>) \o <<Elem(FALSE, {"_", "-"}, 0, 1)>> \o LitI(<<"k", "e", "y">>)
        \o <<SpaceStar, ColonOrEquals, SpaceStar,
             Elem(FALSE, Letters \cup Digits \cup {"_", "-"}, 8, Unbounded)>>

\* (?i)token\s*[:=]\s*([A-Za-z0-9._-]{8,})
PatToken ==
    LitI(<<"t", "o", "k", "e", "n">>)
        \o <<SpaceStar, ColonOrEquals, SpaceStar,
             Elem(FALSE, Letters \cup Digits \cup {".", "_", "-"}, 8, Unbounded)>>

\* (?i)password\s*[:=]\s*([^\s]+)
PatPassword ==
    LitI(<<"p", "a", "s", "s", "w", "o", "r", "d">>)
        \o <<SpaceStar, ColonOrEquals, SpaceStar, Elem(TRUE, WhiteSpace, 1, Unbounded)>>

\* AuditConfig.redact_patterns as shipped
DefaultPatterns == <<PatApiKey, PatToken, PatPassword>>

\* pattern.sub("<redacted>", ...)
Replacement == <<"<", "r", "e", "d", "a", "c", "t", "e", "d", ">">>

RECURSIVE RunLen(_, _, _, _)
\* how many characters from pos on the class can take, up to its maximum
RunLen(e, s, pos, n) ==
    IF pos + n <= Len(s) /\ (e.max = Unbounded \/ n < e.max) /\ InClass(s[pos + n], e)
    THEN RunLen(e, s, pos, n + 1)
    ELSE n

RECURSIVE MatchFrom(_, _, _, _)
RECURSIVE TryRun(_, _, _, _, _)

\* the position after the match of elements k.. of pat at pos, or -1
MatchFrom(pat, k, s, pos) ==
    IF k > Len(pat) THEN pos
    ELSE TryRun(pat, k, s, pos, RunLen(pat[k], s, pos, 0))

\* greedy: the longest run first, then shorter ones down to the minimum
TryRun(pat, k, s, pos, n) ==
    IF n < pat[k].min THEN 0 - 1
    ELSE LET r == MatchFrom(pat, k + 1, s, pos + n)
         IN  IF r # 0 - 1 THEN r ELSE TryRun(pat, k, s, pos, n - 1)

RECURSIVE SubFrom(_, _, _, _)
SubFrom(pat, s, pos, out) ==
    IF pos > Len(s) THEN out
    ELSE LET r == MatchFrom(pat, 1, s, pos)
         IN  IF r > pos THEN SubFrom(pat, s, r, out \o Replacement)
             ELSE SubFrom(pat, s, pos + 1, Append(out, s[pos]))

\* pattern.sub("<redacted>", s): leftmost non-overlapping matches replaced
Sub(pat, s) == SubFrom(pat, s, 1, <<>>)

\* pattern.search(s) is not None
Search(pat, s) == \E pos \in 1..Len(s) : MatchFrom(pat, 1, s, pos) > pos

----------------------------------------------------------------------------
(* Audit logger: payloads as trees of JSON values, redaction, serialisation *)

Str(chars) == [t |-> "str", v |-> chars]
Number(n) == [t |-> "number", v |-> n]
Bool(b) == [t |-> "bool", v |-> b]
Null == [t |-> "null", v |-> <<>>]
List(items) == [t |-> "list", v |-> items]
Item(key, val) == [key |-> key, val |-> val]
\* a dict keeps its items in insertion order
Dict(items) == [t |-> "dict", v |-> items]
\* a value json.dumps has no encoding for: a set, bytes, a Path, a datetime
Opaque == [t |-> "object", v |-> <<>>]

NotYet == [t |-> "unset", v |-> <<>>]

K_timestamp == <<"t", "i", "m", "e", "s", "t", "a", "m", "p">>

\* payload[key] = val: an existing key keeps its place, a new one goes last
SetItem(d, key, val) ==
    IF \E i \in 1..Len(d.v) : d.v[i].key = key
    THEN Dict([i \in 1..Len(d.v) |-> IF d.v[i].key = key THEN Item(key, val) ELSE d.v[i]])
    ELSE Dict(Append(d.v, Item(key, val)))

DigitChar == <<"0", "1", "2", "3", "4", "5", "6", "7", "8", "9">>

\* datetime.now(tz=timezone.utc).isoformat() at tick t
IsoFormat(t) ==
    <<"2", "0", "2", "5", "-", "0", "1", "-", "0", "1", "T", "0", "0", ":", "0", "0", ":",
      "0", DigitChar[(t % 10) + 1], "+", "0", "0", ":", "0", "0">>

RECURSIVE SubEach(_, _, _)

\* a loop that stops at the first rule that changed the text
SubEach_until_hit(compiled, i, s) ==
    IF i > Len(compiled) THEN s
    ELSE LET r == Sub(compiled[i], s)
         IN  IF r # s THEN r ELSE SubEach(compiled, i + 1, s)

\* for pattern in self._compiled: redacted = pattern.sub("<redacted>", redacted)
SubEach(compiled, i, s) ==
    IF i > Len(compiled) THEN s
    ELSE SubEach(compiled, i + 1, Sub(compiled[i], s))

RECURSIVE _redact(_, _)

\* a recursion that leaves lists as they are
_redact_skip_lists(value, compiled) ==
    CASE value.t = "dict" ->
           Dict([i \in 1..Len(value.v) |->
                    Item(value.v[i].key, _redact(value.v[i].val, compiled))])
      [] value.t = "str" -> Str(SubEach(compiled, 1, value.v))
      [] OTHER -> value

_redact(value, compiled) ==
    CASE value.t = "dict" ->
           Dict([i \in 1..Len(value.v) |->
                    Item(value.v[i].key, _redact(value.v[i].val, compiled))])
      [] value.t = "list" ->
           List([i \in 1..Len(value.v) |-> _redact(value.v[i], compiled)])
      [] value.t = "str" -> Str(SubEach(compiled, 1, value.v))
      [] OTHER -> value

\* json.dumps of one character inside a string
EscapeChar(c) ==
    CASE c = "\"" -> <<"\\", "\"">>
      [] c = "\\" -> <<"\\", "\\">>
      [] c = "\n" -> <<"\\", "n">>
      [] c = "\r" -> <<"\\", "r">>
      [] c = "\t" -> <<"\\", "t">>
      [] c = "\f" -> <<"\\", "f">>
      [] OTHER -> <<c>>

RECURSIVE Concat(_)
Concat(seqs) == IF seqs = <<>> THEN <<>> ELSE Head(seqs) \o Concat(Tail(seqs))

DumpsStr(chars) ==
    <<"\"">> \o Concat([i \in 1..Len(chars) |-> EscapeChar(chars[i])]) \o <<"\"">>

RECURSIVE DumpsInt(_)
DumpsInt(n) ==
    IF n < 0 THEN <<"-">> \o DumpsInt(0 - n)
    ELSE IF n < 10 THEN <<DigitChar[n + 1]>>
    ELSE DumpsInt(n \div 10) \o <<DigitChar[(n % 10) + 1]>>

RECURSIVE JoinItems(_)
\* ", ".join(parts)
JoinItems(parts) ==
    IF parts = <<>> THEN <<>>
    ELSE IF Len(parts) = 1 THEN parts[1]
    ELSE parts[1] \o <<",", " ">> \o JoinItems(Tail(parts))

RECURSIVE Dumps(_)
\* json.dumps(value) with the default separators
Dumps(value) ==
    CASE value.t = "dict" ->
           <<"{">> \o JoinItems([i \in 1..Len(value.v) |->
                          DumpsStr(value.v[i].key) \o <<":", " ">> \o Dumps(value.v[i].val)])
                   \o <<"}">>
      [] value.t = "list" ->
           <<"[">> \o JoinItems([i \in 1..Len(value.v) |-> Dumps(value.v[i])]) \o <<"]">>
      [] value.t = "str" -> DumpsStr(value.v)
      [] value.t = "number" -> DumpsInt(value.v)
      [] value.t = "bool" ->
           IF value.v THEN <<"t", "r", "u", "e">> ELSE <<"f", "a", "l", "s", "e">>
      [] OTHER -> <<"n", "u", "l", "l">>

RECURSIVE Serializable(_)
\* whether json.dumps(value) returns; otherwise it raises TypeError
Serializable(value) ==
    CASE value.t = "dict" -> \A i \in 1..Len(value.v) : Serializable(value.v[i].val)
      [] value.t = "list" -> \A i \in 1..Len(value.v) : Serializable(value.v[i])
      [] value.t = "object" -> FALSE
      [] OTHER -> TRUE

NoException == "none"
TypeError == "TypeError"

----------------------------------------------------------------------------
(* Inputs explored *)

P_a_r == <<"/", "a", "/", "r">>                          \* /a/r
P_ab_s == <<"/", "a", "b", "/", "s">>                    \* /ab/s
P_b_x == <<"/", "b", "/", "x">>                          \* /b/x
P_b_dot_x == <<"/", "b", "/", ".", "/", "x">>            \* /b/./x
P_a_up_b_x == <<"/", "a", "/", ".", ".", "/", "b", "/", "x">>   \* /a/../b/x
P_a_k_x == <<"/", "a", "/", "k", "/", "x">>              \* /a/k/x, through the link
P_rel == <<"r">>                                         \* r, relative to Cwd

Paths == {P_a_r, P_ab_s, P_b_x, P_b_dot_x, P_a_up_b_x, P_a_k_x, P_rel}

C_git_status == <<"g", " ", "s">>
C_ls == <<"l", "s">>
Commands == {C_git_status, C_ls}

K_echo == <<"e", "c">>
K_dev == <<"d", "v">>
SkillNames == {K_echo, K_dev}

A_a == <<"/", "a">>                                      \* allowlist entry /a
A_w == <<"/", "w">>                                      \* allowlist entry /w

PermissionConfig(te, trm, full) ==
    [tools_enabled |-> te,
     terminal_enabled |-> trm,
     file_read_allowlist |-> IF full THEN <<A_a>> ELSE <<>>,
     file_write_allowlist |-> IF full THEN <<A_a, A_w>> ELSE <<>>,
     terminal_allowlist |-> IF full THEN <<C_ls>> ELSE <<>>,
     skills_enabled |-> IF full THEN <<K_dev>> ELSE <<>>,
     require_approval |-> TRUE]

Configs == { PermissionConfig(te, trm, full) : te \in BOOLEAN, trm \in BOOLEAN, full \in BOOLEAN }

\* scope strings posted to /approvals
GrantScopes ==
    { Scope("file_read", P_b_x), Scope("file_write", P_b_x),
      Scope("terminal", C_ls), Scope("skill", K_dev) }

Expiries == {NoExpiry, Aware(1), Naive(1)}

\* the scopes the concurrent requests grant and check
LedgerScopes == { Scope("file_read", P_b_x), Scope("terminal", C_ls) }

\* a rule an operator may add to redact_patterns: [A-Za-z0-9]{8,}
PatLongWord == <<Elem(FALSE, Letters \cup Digits, 8, Unbounded)>>

Patterns == {PatApiKey, PatToken, PatPassword, PatLongWord}

\* ordered rule lists without repetition, up to MaxRules rules, and the shipped one
RuleLists ==
    { rs \in UNION { [1..n -> Patterns] : n \in 0..MaxRules } :
        \A i, j \in 1..Len(rs) : i # j => rs[i] # rs[j] }
    \cup {DefaultPatterns}

W_password == <<"p", "a", "s", "s", "w", "o", "r", "d", "=">>    \* password=
W_token == <<"t", "o", "k", "e", "n", ":">>                       \* token:
W_api_key == <<"A", "P", "I", "_", "k", "e", "y", "=">>           \* API_key=
W_value == <<"a", "b", "c", "d", "e", "f", "g", "h">>            \* abcdefgh
W_space == <<" ">>
Chunks == {W_password, W_token, W_api_key, W_value, W_space, Replacement}

RECURSIVE Texts(_)
\* the texts made of at most n chunks
Texts(n) ==
    IF n = 0 THEN {<<>>}
    ELSE Texts(n - 1) \cup { c \o t : c \in Chunks, t \in Texts(n - 1) }

S_two == W_token \o W_value \o W_space \o W_password \o <<"x">>  \* token:abcdefgh password=x
S_key == W_password \o <<"h", "u", "n", "t", "e", "r", "2">>     \* password=hunter2
K_k == <<"k">>

Leaves == {Str(S_two), Number(42), Bool(TRUE), Null}

RECURSIVE Values(_)
\* the values nested at most d levels deep
Values(d) ==
    IF d = 0 THEN Leaves
    ELSE Values(d - 1)
         \cup { List(<<a, b>>) : a \in {Str(S_two), Null}, b \in Values(d - 1) }
         \cup { Dict(<<Item(K_k, a)>>) : a \in Values(d - 1) }

Payloads ==
    { Dict(<<Item(K_k, Str(s))>>) : s \in Texts(MaxChunks) }
    \cup { Dict(<<Item(k, v)>>) : k \in {K_k, S_key}, v \in Values(MaxDepth) }
    \cup { Dict(<<Item(K_timestamp, Str(S_two)), Item(K_k, Str(S_two))>>), Dict(<<>>) }
    \cup { Dict(<<Item(K_k, Opaque)>>), Dict(<<Item(K_k, List(<<Str(S_two), Opaque>>))>>) }

S_lines == <<"a", "\n", "b">>
\* what requests and skill contexts hand to log
Events ==
    { Dict(<<Item(K_k, Str(S_two))>>), Dict(<<Item(K_k, Str(S_lines))>>),
      Dict(<<Item(K_timestamp, Str(S_two))>>), Dict(<<Item(K_k, Opaque)>>) }

\* who calls log: an endpoint of the application, the context of a running skill
Callers == {"request", "skill"}

AuditAtRest ==
    /\ redact_patterns = DefaultPatterns
    /\ payload = Dict(<<>>)
    /\ redacted = NotYet
    /\ passes = <<>>
    /\ log_lines = <<>>
    /\ log_calls = <<>>

----------------------------------------------------------------------------
(* Skill context: files, child processes, audit events *)

\* target.with_suffix(target.suffix + ext): ext is appended to the last component
WithSuffix(p, ext) == [p EXCEPT !.parts[Len(p.parts)] = @ \o ext]

BackupPath(target) == WithSuffix(target, <<".", "b", "a", "k">>)

\* the replacement written into the target itself
TempPath_in_place(target) == target

TempPath(target) == WithSuffix(target, <<".", "t", "m", "p">>)

Absent == [exists |-> FALSE, data |-> <<>>]
File(data) == [exists |-> TRUE, data |-> data]

None == [some |-> FALSE, v |-> <<>>]
Some(v) == [some |-> TRUE, v |-> v]

ToolResult(success, output, error, metadata) ==
    [success |-> success, output |-> output, error |-> error, metadata |-> metadata]

NoResult == ToolResult(FALSE, None, None, <<>>)

\* ToolResult(success=False, error=decision.reason, metadata={"approval": decision.model_dump()})
DeniedResult(dec) == ToolResult(FALSE, None, Some(<<dec.reason>>), <<dec>>)

V_old == <<"o", "0">>
V_new == <<"n", "1">>
V_alt == <<"m", "2">>
V_crlf == <<"\r", "\n">>
Contents == {V_new, V_alt, V_crlf}

\* an octet that is not part of any UTF-8 text
Undecodable == "0xFF"

Decodable(octets) == \A i \in 1..Len(octets) : octets[i] # Undecodable

RECURSIVE ReadText(_)
\* what reading in text mode makes of a file's octets: octets that do not decode
\* are dropped (errors="ignore"), and "\r\n" and "\r" come out as "\n"
ReadText(octets) ==
    IF octets = <<>> THEN <<>>
    ELSE IF Head(octets) = Undecodable THEN ReadText(Tail(octets))
    ELSE IF Head(octets) = "\r"
         THEN <<"\n">> \o ReadText(IF Len(octets) > 1 /\ octets[2] = "\n"
                                    THEN Tail(Tail(octets)) ELSE Tail(octets))
    ELSE <<Head(octets)>> \o ReadText(Tail(octets))

\* a child process as subprocess.run sees it: exit code and the octets on its pipes
ChildProcess(rc, stdout, stderr) == [rc |-> rc, stdout |-> stdout, stderr |-> stderr]
NoChild == ChildProcess(0, <<>>, <<>>)
Children ==
    { ChildProcess(0, <<"o">>, <<>>), ChildProcess(1, <<"o">>, <<"e">>),
      ChildProcess(0, <<"o", Undecodable>>, <<>>) }

\* the paths handed to rag_ingest
IngestPaths == {P_a_r}

\* rag_ingest asks the policy nothing
Unchecked == ApprovalDecision(TRUE, "not checked", <<>>, FALSE)

CtxPaths == {P_a_r, P_b_x, P_a_k_x}

Argv_ls == << C_ls >>                         \* ["ls"]
Argv_g_s == << <<"g">>, <<"s">> >>            \* ["g", "s"]
Argv_gs == << C_git_status >>                 \* ["g s"]
Argvs == {Argv_ls, Argv_g_s, Argv_gs}

\* every file a call can reach: the targets, their backups and their temporaries
FileNames ==
    UNION { { FileAt(PurePath(p), l), FileAt(BackupPath(PurePath(p)), l), FileAt(TempPath(PurePath(p)), l) } :
            p \in CtxPaths, l \in LinkTargets }

InitialFiles ==
    [f \in FileNames |->
        IF f \in {Resolve(P_a_r, DirB), Resolve(P_b_x, DirB)} THEN File(V_old) ELSE Absent]

\* ledgers the context is handed: none, standing grants, a grant without time zone
SkillLedgers ==
    { <<>>,
      << ApprovalRecord(Scope("file_read", P_b_x), NoExpiry),
         ApprovalRecord(Scope("file_write", P_b_x), Aware(1)),
         ApprovalRecord(Scope("terminal", C_git_status), NoExpiry) >>,
      << ApprovalRecord(Scope("file_write", P_b_x), Naive(1)) >> }

IdleCall ==
    [op |-> "none", pc |-> "idle", path |-> <<>>, content |-> <<>>, argv |-> <<>>,
     dec |-> Raised(<<>>), data |-> <<>>, fd |-> <<>>, rc |-> 0, child |-> NoChild,
     result |-> NoResult, exc |-> "",
     n |-> 0, files0 |-> InitialFiles, audit0 |-> 0, spawned0 |-> 0]

\* a method of the context is entered: its arguments, and the state it starts from
Enter(op, path, content, argv, dec) ==
    [IdleCall EXCEPT !.op = op, !.path = path, !.content = content, !.argv = argv,
                     !.dec = dec, !.n = call.n + 1, !.files0 = files,
                     !.audit0 = Len(audit_log), !.spawned0 = Len(spawned)]

\* the method going on whatever the decision says
AfterCheck_ignore_denial(c, go) ==
    IF c.dec.raised THEN [c EXCEPT !.pc = "raised", !.exc = c.dec.reason]
    ELSE [c EXCEPT !.pc = go]

\* where the method goes after its policy check
AfterCheck(c, go) ==
    IF c.dec.raised THEN [c EXCEPT !.pc = "raised", !.exc = c.dec.reason]
    ELSE IF ~c.dec.allowed THEN [c EXCEPT !.pc = "returned", !.result = DeniedResult(c.dec)]
    ELSE [c EXCEPT !.pc = go]

Finished == call.pc \in {"idle", "returned", "raised", "crashed"}

\* the next call is made once the one before has come back; a stopped process makes none
CanCall == call.pc \in {"idle", "returned", "raised"} /\ call.n < MaxCalls

Target == PurePath(call.path)
TargetFile == FileAt(Target, symlinks)
BackupFile == FileAt(BackupPath(Target), symlinks)
TempFile == FileAt(TempPath(Target), symlinks)

AuditEvent(tool, subject, summary) ==
    [tool |-> tool, subject |-> subject, decision |-> "allowed", summary |-> summary]

----------------------------------------------------------------------------
(* Skill manager: manifests, skill code, context_factory, run *)

\* manifest.json as read: whether it parses as a JSON object and which keys it has
ManifestText(json, has_name, name, has_entrypoint, entrypoint) ==
    [json |-> json, has_name |-> has_name, name |-> name,
     has_entrypoint |-> has_entrypoint, entrypoint |-> entrypoint]

\* SkillManifest; description, required_permissions and tools play no part in run
SkillManifest(name, entrypoint) == [name |-> name, entrypoint |-> entrypoint]

F_skill_py == <<"s", "k", "i", "l", "l", ".", "p", "y">>
F_main_py == <<"m", "a", "i", "n", ".", "p", "y">>

\* what a handler hands back: a ToolResult, another value, or an exception
Returns(v) == [kind |-> "tool_result", v |-> v]
ReturnsValue(v) == [kind |-> "value", v |-> v]
ReturnsObject == [kind |-> "object", v |-> <<>>]      \* a value json.dumps refuses
Raises(msg) == [kind |-> "raise", v |-> msg]          \* an Exception with str(exc) = msg
\* a coroutine object handed back unawaited; o is what awaiting it would give
ReturnsAwaitable(o) == [kind |-> "awaitable", v |-> o]
NoOutcome == [kind |-> "none", v |-> <<>>]

\* the source of an entrypoint file: what executing it does and what its run does
SkillCode(load, is_async, on_ok, on_boom, on_odd) ==
    [load |-> load, is_async |-> is_async, on_ok |-> on_ok, on_boom |-> on_boom,
     on_odd |-> on_odd]

\* one sub-directory of the skills directory
SkillDir(dir, has_manifest, manifest, file, code) ==
    [dir |-> dir, has_manifest |-> has_manifest, manifest |-> manifest,
     file |-> file, code |-> code]

K_action == <<"a", "c", "t", "i", "o", "n">>
P_ok == Dict(<<Item(K_action, Str(<<"o", "k">>))>>)
P_boom == Dict(<<Item(K_action, Str(<<"b", "o", "o", "m">>))>>)
P_odd == Dict(<<Item(K_action, Str(<<"o", "d", "d">>))>>)
RunPayloads == {P_ok, P_boom, P_odd}

\* handler(context, payload)
Handler(code, args) ==
    IF args = P_ok THEN code.on_ok
    ELSE IF args = P_boom THEN code.on_boom
    ELSE code.on_odd

E_not_found == <<"S", "k", "i", "l", "l", " ", "n", "o", "t", " ", "f", "o", "u", "n", "d">>
E_entrypoint_missing ==
    <<"S", "k", "i", "l", "l", " ", "e", "n", "t", "r", "y", "p", "o", "i", "n", "t", " ",
      "m", "i", "s", "s", "i", "n", "g">>
E_missing_run ==
    <<"S", "k", "i", "l", "l", " ", "m", "i", "s", "s", "i", "n", "g", " ", "r", "u", "n",
      "(", ")">>
E_not_serializable ==
    <<"O", "b", "j", "e", "c", "t", " ", "o", "f", " ", "t", "y", "p", "e", " ", "s", "e",
      "t", " ", "i", "s", " ", "n", "o", "t", " ", "J", "S", "O", "N", " ", "s", "e", "r",
      "i", "a", "l", "i", "z", "a", "b", "l", "e">>
E_coroutine ==
    <<"O", "b", "j", "e", "c", "t", " ", "o", "f", " ", "t", "y", "p", "e", " ", "c", "o",
      "r", "o", "u", "t", "i", "n", "e", " ", "i", "s", " ", "n", "o", "t", " ", "J", "S",
      "O", "N", " ", "s", "e", "r", "i", "a", "l", "i", "z", "a", "b", "l", "e">>
E_boom == <<"b", "o", "o", "m">>
E_late == <<"l", "a", "t", "e">>
E_import == <<"N", "o", " ", "m", "o", "d", "u", "l", "e">>

\* self._manifests[manifest.name] = manifest
PutManifest(manifests, m) ==
    IF \E i \in 1..Len(manifests) : manifests[i].name = m.name
    THEN [i \in 1..Len(manifests) |-> IF manifests[i].name = m.name THEN m ELSE manifests[i]]
    ELSE Append(manifests, m)

Loaded(manifests) == [raised |-> FALSE, exc |-> "", manifests |-> manifests]
LoadRaised(exc) == [raised |-> TRUE, exc |-> exc, manifests |-> <<>>]

RECURSIVE load_from(_, _, _)
\* for manifest_path in self.skills_dir.glob("*/manifest.json"): ...
load_from(dirs, i, manifests) ==
    IF i > Len(dirs) THEN Loaded(manifests)
    ELSE LET d == dirs[i]
         IN  IF ~d.has_manifest THEN load_from(dirs, i + 1, manifests)
             ELSE IF ~d.manifest.json THEN LoadRaised("JSONDecodeError")
             ELSE IF ~d.manifest.has_name THEN LoadRaised("KeyError")
             ELSE load_from(dirs, i + 1,
                      PutManifest(manifests,
                          SkillManifest(d.manifest.name,
                                        IF d.manifest.has_entrypoint THEN d.manifest.entrypoint
                                        ELSE F_skill_py)))

_load_manifests(tree) ==
    IF ~tree.exists THEN Loaded(<<>>) ELSE load_from(tree.dirs, 1, <<>>)

\* self._manifests.get(skill_name)
ManifestsGet(manifests, skill_name) ==
    { manifests[i] : i \in { j \in 1..Len(manifests) : manifests[j].name = skill_name } }

\* a lookup that is content with the skill's directory being there
SkillPathHits_any(tree, skill_name, entrypoint) ==
    { i \in 1..Len(tree.dirs) : tree.dirs[i].dir = skill_name }

\* the directories in which self.skills_dir / skill_name / manifest.entrypoint exists
SkillPathHits(tree, skill_name, entrypoint) ==
    { i \in 1..Len(tree.dirs) : tree.dirs[i].dir = skill_name /\ tree.dirs[i].file = entrypoint }

\* a factory that keeps handing out the objects it built first
context_factory_cached(calls, permissions, by) ==
    [policy |-> 1, audit |-> 2, context |-> 3, permissions |-> permissions, by |-> by]

\* context_factory(): a new PolicyEngine, AuditLogger and SkillContext, numbered as built
context_factory(calls, permissions, by) ==
    [policy |-> 3 * Len(calls) + 1, audit |-> 3 * Len(calls) + 2,
     context |-> 3 * Len(calls) + 3, permissions |-> permissions, by |-> by]

\* dir: the sub-directory whose entrypoint file the call read and executed
Invocation(name, args, pc, result, exc, context, loaded, called, pending, dir) ==
    [name |-> name, args |-> args, pc |-> pc, result |-> result, exc |-> exc,
     context |-> context, loaded |-> loaded, called |-> called, pending |-> pending,
     dir |-> dir]

Failure(msg) == ToolResult(FALSE, None, Some(msg), <<>>)

\* a wrapper that hands a returned ToolResult on only when it reports success
Wrap_success_only(outcome) ==
    CASE outcome.kind = "tool_result" ->
            IF outcome.v.success THEN outcome.v ELSE ToolResult(TRUE, None, None, <<>>)
      [] outcome.kind = "value" -> ToolResult(TRUE, Some(Dumps(outcome.v)), None, <<>>)
      [] outcome.kind = "object" -> Failure(E_not_serializable)
      [] outcome.kind = "awaitable" -> Failure(E_coroutine)
      [] OTHER -> Failure(outcome.v)

\* a wrapper that reports a raising handler as a success
Wrap_hide_error(outcome) ==
    CASE outcome.kind = "tool_result" -> outcome.v
      [] outcome.kind = "value" -> ToolResult(TRUE, Some(Dumps(outcome.v)), None, <<>>)
      [] outcome.kind = "object" -> Failure(E_not_serializable)
      [] outcome.kind = "awaitable" -> Failure(E_coroutine)
      [] OTHER -> ToolResult(TRUE, None, None, <<>>)

\* a wrapper that takes a returned dict at its word: a "success" item that is
\* false makes the result a failure
Wrap_by_flag(outcome) ==
    CASE outcome.kind = "tool_result" -> outcome.v
      [] outcome.kind = "value" ->
            ToolResult(~(outcome.v.t = "dict"
                           /\ \E i \in 1..Len(outcome.v.v) :
                                 /\ outcome.v.v[i].key = <<"s", "u", "c", "c", "e", "s", "s">>
                                 /\ outcome.v.v[i].val = Bool(FALSE)),
                       Some(Dumps(outcome.v)), None, <<>>)
      [] outcome.kind = "object" -> Failure(E_not_serializable)
      [] outcome.kind = "awaitable" -> Failure(E_coroutine)
      [] OTHER -> Failure(outcome.v)

\* the try block of run: what the caller gets for what the handler did
Wrap(outcome) ==
    CASE outcome.kind = "tool_result" -> outcome.v
      [] outcome.kind = "value" -> ToolResult(TRUE, Some(Dumps(outcome.v)), None, <<>>)
      [] outcome.kind = "object" -> Failure(E_not_serializable)
      [] outcome.kind = "awaitable" -> Failure(E_coroutine)
      [] OTHER -> Failure(outcome.v)

\* SkillManager.run up to the point where it returns, raises or awaits the handler:
\* the invocation record and the context_factory calls after it
run(tree, manifests, calls, permissions, n, skill_name, args) ==
    LET found == ManifestsGet(manifests, skill_name)
        early(msg) ==
            [inv |-> Invocation(skill_name, args, "returned", Failure(msg), <<>>, 0,
                                FALSE, FALSE, NoOutcome, <<>>),
             calls |-> calls]
    IN  IF found = {} THEN early(E_not_found)
        ELSE LET manifest == CHOOSE m \in found : TRUE
                 hits == SkillPathHits(tree, skill_name, manifest.entrypoint)
             IN  IF hits = {} THEN early(E_entrypoint_missing)
                 ELSE LET context == context_factory(calls, permissions, n)
                          at == tree.dirs[CHOOSE i \in hits : TRUE]
                          code == at.code
                          step(pc, result, exc, called, pending) ==
                              [inv |-> Invocation(skill_name, args, pc, result, exc,
                                                  context.context, TRUE, called, pending,
                                                  at.dir),
                               calls |-> Append(calls, context)]
                      IN  IF code.load = "raises"
                          THEN step("raised", NoResult, E_import, FALSE, NoOutcome)
                          ELSE IF code.load = "no_run"
                          THEN step("returned", Failure(E_missing_run), <<>>, FALSE, NoOutcome)
                          ELSE IF code.is_async
                          THEN step("awaiting", NoResult, <<>>, TRUE, Handler(code, args))
                          ELSE step("returned", Wrap(Handler(code, args)), <<>>, TRUE,
                                    NoOutcome)

N_echo == <<"e", "c", "h", "o">>
N_tool == <<"t", "o", "o", "l">>
N_gone == <<"g", "o", "n", "e">>
N_broken == <<"b", "r", "o", "k", "e", "n">>
N_norun == <<"n", "o", "r", "u", "n">>
N_junk == <<"j", "u", "n", "k">>
N_anon == <<"a", "n", "o", "n">>
N_plain == <<"p", "l", "a", "i", "n">>
N_ghost == <<"g", "h", "o", "s", "t">>
N_stray == <<"s", "t", "r", "a", "y">>
N_moved == <<"m", "o", "v", "e", "d">>
N_twin == <<"t", "w", "i", "n">>
N_lazy == <<"l", "a", "z", "y">>

\* def run(context, payload): returns {"ok": true}, raises, or returns a set
Code_echo ==
    SkillCode("ok", FALSE, ReturnsValue(Dict(<<Item(<<"o", "k">>, Bool(TRUE))>>)),
              Raises(E_boom), ReturnsObject)
\* async def run(context, payload): returns what a context method returned, or raises
Code_tool ==
    SkillCode("ok", TRUE, Returns(ToolResult(TRUE, Some(<<"d", "o", "n", "e">>), None, <<>>)),
              Raises(E_late), Returns(Failure(<<"d", "e", "n", "i", "e", "d">>)))
\* the body of echo's run under async def
Code_twin == SkillCode("ok", TRUE, Code_echo.on_ok, Code_echo.on_boom, Code_echo.on_odd)
\* def run(context, payload): return context.rag_ingest(...), the coroutine not awaited
Code_lazy ==
    SkillCode("ok", FALSE,
              ReturnsAwaitable(Returns(ToolResult(TRUE, Some(<<"d", "o", "n", "e">>), None, <<>>))),
              Raises(E_boom), ReturnsObject)
\* a source whose execution raises before run is defined
Code_broken == SkillCode("raises", FALSE, NoOutcome, NoOutcome, NoOutcome)
\* a source that defines no run
Code_norun == SkillCode("no_run", FALSE, NoOutcome, NoOutcome, NoOutcome)

NoManifest == ManifestText(FALSE, FALSE, <<>>, FALSE, <<>>)

D_echo == SkillDir(N_echo, TRUE, ManifestText(TRUE, TRUE, N_echo, TRUE, F_skill_py),
                   F_skill_py, Code_echo)
D_tool == SkillDir(N_tool, TRUE, ManifestText(TRUE, TRUE, N_tool, FALSE, <<>>),
                   F_skill_py, Code_tool)
D_gone == SkillDir(N_gone, TRUE, ManifestText(TRUE, TRUE, N_gone, TRUE, F_main_py),
                   F_skill_py, Code_echo)
D_broken == SkillDir(N_broken, TRUE, ManifestText(TRUE, TRUE, N_broken, TRUE, F_skill_py),
                     F_skill_py, Code_broken)
D_norun == SkillDir(N_norun, TRUE, ManifestText(TRUE, TRUE, N_norun, TRUE, F_skill_py),
                    F_skill_py, Code_norun)
D_junk == SkillDir(N_junk, TRUE, ManifestText(FALSE, FALSE, <<>>, FALSE, <<>>),
                   F_skill_py, Code_echo)
D_anon == SkillDir(N_anon, TRUE, ManifestText(TRUE, FALSE, <<>>, TRUE, F_skill_py),
                   F_skill_py, Code_echo)
D_plain == SkillDir(N_plain, FALSE, NoManifest, F_skill_py, Code_echo)
\* a directory whose manifest gives another name than the directory's
D_stray == SkillDir(N_stray, TRUE, ManifestText(TRUE, TRUE, N_moved, TRUE, F_skill_py),
                    F_skill_py, Code_tool)
D_twin == SkillDir(N_twin, TRUE, ManifestText(TRUE, TRUE, N_twin, TRUE, F_skill_py),
                   F_skill_py, Code_twin)
D_lazy == SkillDir(N_lazy, TRUE, ManifestText(TRUE, TRUE, N_lazy, TRUE, F_skill_py),
                   F_skill_py, Code_lazy)

SkillDirs ==
    {D_echo, D_tool, D_gone, D_broken, D_norun, D_junk, D_anon, D_plain, D_stray, D_twin,
     D_lazy}

\* the skills directory: absent, or up to MaxSkills sub-directories in any order
SkillTrees ==
    {[exists |-> FALSE, dirs |-> <<>>]} \cup
    { [exists |-> TRUE, dirs |-> ds] :
        ds \in { q \in UNION { [1..n -> SkillDirs] : n \in 0..MaxSkills } :
                   \A i, j \in 1..Len(q) : i # j => q[i] # q[j] } }

Writers == {1, 2}

\* a write_file call not made yet
IdleWriter ==
    [pc |-> "idle", path |-> <<>>, content |-> <<>>, dec |-> Raised(<<>>), data |-> <<>>,
     fd |-> <<>>, off |-> 0, result |-> NoResult, exc |-> ""]

\* DreamConfig and ReflectionConfig, as far as run_scheduler reads them
ScheduleConfig(dreams, reflections) ==
    [dreams_enabled |-> dreams, daily_hour |-> 2,
     reflections_enabled |-> reflections, weekly_day |-> 6]

\* the dict SchedulerState.load returns when there is no file; 0 stands for a
\* key the dict does not hold
NoSchedulerState == [last_dream_date |-> 0, last_reflection_week |-> 0]

\* run_scheduler at its first tick on day 1, scheduler_state.json not written yet
FreshScheduler(cfg, hour) ==
    [pc |-> "sleeping", cfg |-> cfg, now |-> [date |-> 1, hour |-> hour],
     file |-> [exists |-> FALSE, whole |-> TRUE, data |-> NoSchedulerState],
     state |-> NoSchedulerState, tick |-> [date |-> 1, hour |-> hour],
     runs |-> <<>>, exc |-> ""]

\* no request taken in, no config.json yet, no /config exchange, no concurrent writers
LoopAtRest ==
    /\ writers = [w \in Writers |-> IdleWriter]
    /\ loop = [tasks |-> <<>>, running |-> 0]
    /\ config_store = [file |-> [exists |-> FALSE, data |-> <<>>], state |-> NotYet,
                       posted |-> NotYet, reply |-> [op |-> "none"]]

\* nothing of the server has run: the scheduler not ticking, no exchange handled
ServerAtRest ==
    /\ LoopAtRest
    /\ scheduler = FreshScheduler(ScheduleConfig(FALSE, FALSE), 0)
    /\ http = <<>>

ManagerAtRest ==
    /\ ServerAtRest
    /\ ledger_calls = <<>>
    /\ skills_dir = [exists |-> FALSE, dirs |-> <<>>]
    /\ manager = [state |-> "unbuilt", exc |-> "", manifests |-> <<>>]
    /\ invocations = <<>>
    /\ factory_calls = <<>>

----------------------------------------------------------------------------
(* State machine of the policy layer *)

NoDecision == [op |-> "none", target |-> <<>>, res |-> Raised(<<>>)]

Init ==
    /\ config \in Configs
    /\ approvals = <<>>
    /\ clock = 0
    /\ symlinks = DirB
    /\ decision = NoDecision
    /\ files = InitialFiles
    /\ audit_log = <<>>
    /\ spawned = <<>>
    /\ call = IdleCall
    /\ AuditAtRest
    /\ ManagerAtRest

\* the handlers run one at a time on the event loop: a request is taken up once
\* the evaluation before it has handed back its decision
Idle == decision.op = "none"

\* POST /approvals
add_approval ==
    /\ Idle
    /\ Len(approvals) < MaxRecords
    /\ \E scope \in GrantScopes, expires_at \in Expiries :
          approvals' = add(approvals, scope, expires_at)
    /\ UNCHANGED <<config, clock, symlinks, decision, skillVars, auditVars, managerVars, ledger_calls, serverVars>>

\* POST /config
update_config ==
    /\ Idle
    /\ \E c \in Configs : c # config /\ config' = c
    /\ UNCHANGED <<approvals, clock, symlinks, decision, skillVars, auditVars, managerVars, ledger_calls, serverVars>>

\* time passes
Tick ==
    /\ Idle
    /\ clock < MaxTime
    /\ clock' = clock + 1
    /\ UNCHANGED <<config, approvals, symlinks, decision, skillVars, auditVars, managerVars, ledger_calls, serverVars>>

\* another process re-points the symbolic link
Relink ==
    /\ Idle
    /\ \E t \in LinkTargets : t # symlinks /\ symlinks' = t
    /\ UNCHANGED <<config, approvals, clock, decision, skillVars, auditVars, managerVars, ledger_calls, serverVars>>

CheckFileRead ==
    /\ Idle
    /\ \E path \in Paths :
          decision' = [op |-> "check_file_read", target |-> path,
                       res |-> check_file_read(config, approvals, clock, symlinks, path)]
    /\ UNCHANGED <<config, approvals, clock, symlinks, skillVars, auditVars, managerVars, ledger_calls, serverVars>>

CheckFileWrite ==
    /\ Idle
    /\ \E path \in Paths :
          decision' = [op |-> "check_file_write", target |-> path,
                       res |-> check_file_write(config, approvals, clock, symlinks, path)]
    /\ UNCHANGED <<config, approvals, clock, symlinks, skillVars, auditVars, managerVars, ledger_calls, serverVars>>

CheckTerminal ==
    /\ Idle
    /\ \E command \in Commands :
          decision' = [op |-> "check_terminal", target |-> command,
                       res |-> check_terminal(config, approvals, clock, command)]
    /\ UNCHANGED <<config, approvals, clock, symlinks, skillVars, auditVars, managerVars, ledger_calls, serverVars>>

CheckSkill ==
    /\ Idle
    /\ \E skill_name \in SkillNames :
          decision' = [op |-> "check_skill", target |-> skill_name,
                       res |-> check_skill(config, approvals, clock, skill_name)]
    /\ UNCHANGED <<config, approvals, clock, symlinks, skillVars, auditVars, managerVars, ledger_calls, serverVars>>

\* the caller has taken the decision; decisions are not kept
Decided ==
    /\ ~Idle
    /\ decision' = NoDecision
    /\ UNCHANGED <<config, approvals, clock, symlinks, skillVars, auditVars, managerVars, ledger_calls, serverVars>>

Next ==
    \/ add_approval
    \/ update_config
    \/ Tick
    \/ Relink
    \/ CheckFileRead
    \/ CheckFileWrite
    \/ CheckTerminal
    \/ CheckSkill
    \/ Decided

Spec == Init /\ [][Next]_vars

\* the ledger on its own: requests on one event loop calling ApprovalStore.add
\* and ApprovalStore.is_approved; neither has an await in it, so a call runs to
\* its end before the next one starts, in any order of the callers
LedgerCall(op, scope, expires_at, result) ==
    [op |-> op, scope |-> scope, expires_at |-> expires_at, result |-> result, at |-> clock]

\* app.state.approvals.add(payload.scope, payload.expires_at)
approvals_add ==
    /\ Len(approvals) < MaxRecords
    /\ Len(ledger_calls) < MaxLedgerCalls
    /\ \E scope \in LedgerScopes, expires_at \in Expiries :
          /\ approvals' = add(approvals, scope, expires_at)
          /\ ledger_calls' = Append(ledger_calls, LedgerCall("add", scope, expires_at, "none"))
    /\ UNCHANGED <<config, clock, symlinks, decision, skillVars, auditVars, managerVars,
                   serverVars>>

\* self.approvals.is_approved(scope)
approvals_is_approved ==
    /\ Len(ledger_calls) < MaxLedgerCalls
    /\ \E scope \in LedgerScopes :
          ledger_calls' = Append(ledger_calls,
              LedgerCall("is_approved", scope, NoExpiry, is_approved(approvals, clock, scope)))
    /\ UNCHANGED <<config, approvals, clock, symlinks, decision, skillVars, auditVars,
                   managerVars, serverVars>>

NextLedger ==
    \/ approvals_add
    \/ approvals_is_approved
    \/ Tick

SpecLedger == Init /\ [][NextLedger]_vars

----------------------------------------------------------------------------
(* State machine of the skill context: one call at a time, step by step *)

policyVars == <<config, approvals, clock, decision, ledger_calls, serverVars>>

InitSkill ==
    /\ config \in Configs
    /\ approvals \in SkillLedgers
    /\ clock = 0
    /\ symlinks \in LinkTargets
    /\ decision = NoDecision
    /\ files = InitialFiles
    /\ audit_log = <<>>
    /\ spawned = <<>>
    /\ call = IdleCall
    /\ AuditAtRest
    /\ ManagerAtRest

At(op, pc) == call.op = op /\ call.pc = pc

\* read_file: the policy check, and the early return on a denial
read_file_check ==
    /\ CanCall
    /\ \E path \in CtxPaths :
          call' = AfterCheck(Enter("read_file", path, <<>>, <<>>,
                                   check_file_read(config, approvals, clock, symlinks, path)), "read")
    /\ UNCHANGED <<policyVars, auditVars, managerVars, symlinks, files, audit_log, spawned>>

\* Path(path).read_text(...)
read_file_read ==
    /\ At("read_file", "read")
    /\ call' = IF files[TargetFile].exists
               THEN [call EXCEPT !.data = ReadText(files[TargetFile].data), !.pc = "audit"]
               ELSE [call EXCEPT !.pc = "raised", !.exc = "FileNotFoundError"]
    /\ UNCHANGED <<policyVars, auditVars, managerVars, symlinks, files, audit_log, spawned>>

read_file_audit ==
    /\ At("read_file", "audit")
    /\ audit_log' = Append(audit_log, AuditEvent("file_read", call.path, "Read file"))
    /\ call' = [call EXCEPT !.pc = "return"]
    /\ UNCHANGED <<policyVars, auditVars, managerVars, symlinks, files, spawned>>

read_file_return ==
    /\ At("read_file", "return")
    /\ call' = [call EXCEPT !.pc = "returned", !.result = ToolResult(TRUE, Some(call.data), None, <<>>)]
    /\ UNCHANGED <<policyVars, auditVars, managerVars, symlinks, files, audit_log, spawned>>

\* write_file: the policy check, and the early return on a denial
write_file_check ==
    /\ CanCall
    /\ \E path \in CtxPaths, content \in Contents :
          call' = AfterCheck(Enter("write_file", path, content, <<>>,
                                   check_file_write(config, approvals, clock, symlinks, path)), "mkdir")
    /\ UNCHANGED <<policyVars, auditVars, managerVars, symlinks, files, audit_log, spawned>>

\* target.parent.mkdir(parents=True, exist_ok=True)
write_file_mkdir ==
    /\ At("write_file", "mkdir")
    /\ call' = [call EXCEPT !.pc = "exists"]
    /\ UNCHANGED <<policyVars, auditVars, managerVars, symlinks, files, audit_log, spawned>>

\* if target.exists(): ... target.read_text(...)
write_file_exists ==
    /\ At("write_file", "exists")
    /\ call' = IF files[TargetFile].exists
               THEN [call EXCEPT !.data = ReadText(files[TargetFile].data), !.pc = "bak_open"]
               ELSE [call EXCEPT !.pc = "tmp_open"]
    /\ UNCHANGED <<policyVars, auditVars, managerVars, symlinks, files, audit_log, spawned>>

\* write_text opens for writing: the file is created or truncated
OpenForWrite(f, text, writing, after) ==
    /\ files' = [files EXCEPT ![f] = File(<<>>)]
    /\ call' = [call EXCEPT !.fd = f, !.pc = IF Len(text) = 0 THEN after ELSE writing]

\* write_text hands the text to the open file, block by block, then closes it
WriteBlock(text, after) ==
    LET n == Len(files[call.fd].data) + 1
    IN  /\ files' = [files EXCEPT ![call.fd] = File(Append(@.data, text[n]))]
        /\ call' = [call EXCEPT !.pc = IF n = Len(text) THEN after ELSE @]

\* backup_path.write_text(<the target's text>)
write_file_bak_open ==
    /\ At("write_file", "bak_open")
    /\ OpenForWrite(BackupFile, call.data, "bak_write", "tmp_open")
    /\ UNCHANGED <<policyVars, auditVars, managerVars, symlinks, audit_log, spawned>>

write_file_bak_write ==
    /\ At("write_file", "bak_write")
    /\ WriteBlock(call.data, "tmp_open")
    /\ UNCHANGED <<policyVars, auditVars, managerVars, symlinks, audit_log, spawned>>

\* temp_path.write_text(content)
write_file_tmp_open ==
    /\ At("write_file", "tmp_open")
    /\ OpenForWrite(TempFile, call.content, "tmp_write", "replace")
    /\ UNCHANGED <<policyVars, auditVars, managerVars, symlinks, audit_log, spawned>>

write_file_tmp_write ==
    /\ At("write_file", "tmp_write")
    /\ WriteBlock(call.content, "replace")
    /\ UNCHANGED <<policyVars, auditVars, managerVars, symlinks, audit_log, spawned>>

\* temp_path.replace(target): one rename
write_file_replace ==
    /\ At("write_file", "replace")
    /\ IF ~files[TempFile].exists
       THEN /\ call' = [call EXCEPT !.pc = "raised", !.exc = "FileNotFoundError"]
            /\ UNCHANGED files
       ELSE /\ call' = [call EXCEPT !.pc = "audit"]
            /\ files' = IF TempFile = TargetFile THEN files
                        ELSE [files EXCEPT ![TargetFile] = files[TempFile], ![TempFile] = Absent]
    /\ UNCHANGED <<policyVars, auditVars, managerVars, symlinks, audit_log, spawned>>

write_file_audit ==
    /\ At("write_file", "audit")
    /\ audit_log' = Append(audit_log, AuditEvent("file_write", call.path, "Wrote file"))
    /\ call' = [call EXCEPT !.pc = "return"]
    /\ UNCHANGED <<policyVars, auditVars, managerVars, symlinks, files, spawned>>

write_file_return ==
    /\ At("write_file", "return")
    /\ call' = [call EXCEPT !.pc = "returned",
                            !.result = ToolResult(TRUE, Some(<<"File written">>), None, <<>>)]
    /\ UNCHANGED <<policyVars, auditVars, managerVars, symlinks, files, audit_log, spawned>>

\* run_command: the joined string, the policy check, the early return on a denial
run_command_check ==
    /\ CanCall
    /\ \E command \in Argvs :
          call' = AfterCheck(Enter("run_command", JoinStr(command, <<" ">>), <<>>, command,
                                   check_terminal(config, approvals, clock, JoinStr(command, <<" ">>))), "run")
    /\ UNCHANGED <<policyVars, auditVars, managerVars, symlinks, files, audit_log, spawned>>

\* subprocess.run(command, capture_output=True, text=True, check=False): the child
\* runs and exits with some code and its output is decoded as text, which raises
\* UnicodeDecodeError on octets that do not decode; or the child cannot be
\* launched (OSError), which is caught and returned
run_command_run ==
    /\ At("run_command", "run")
    /\ \/ /\ \E child \in Children :
                call' = IF Decodable(child.stdout) /\ Decodable(child.stderr)
                        THEN [call EXCEPT !.rc = child.rc, !.child = child,
                                          !.data = ReadText(child.stdout) \o ReadText(child.stderr),
                                          !.pc = "audit"]
                        ELSE [call EXCEPT !.rc = child.rc, !.child = child,
                                          !.pc = "raised", !.exc = "UnicodeDecodeError"]
          /\ spawned' = Append(spawned, call.argv)
       \/ /\ call' = [call EXCEPT !.pc = "returned",
                                  !.result = ToolResult(FALSE, None, Some(<<"OSError">>), <<>>)]
          /\ UNCHANGED spawned
    /\ UNCHANGED <<policyVars, auditVars, managerVars, symlinks, files, audit_log>>

run_command_audit ==
    /\ At("run_command", "audit")
    /\ audit_log' = Append(audit_log, AuditEvent("terminal", call.path, "Ran command"))
    /\ call' = [call EXCEPT !.pc = "return"]
    /\ UNCHANGED <<policyVars, auditVars, managerVars, symlinks, files, spawned>>

run_command_return ==
    /\ At("run_command", "return")
    /\ call' = [call EXCEPT !.pc = "returned",
                            !.result = ToolResult(call.rc = 0, Some(call.data), None, <<>>)]
    /\ UNCHANGED <<policyVars, auditVars, managerVars, symlinks, files, audit_log, spawned>>

\* rag_ingest: no policy check; the method starts by awaiting
\* self.rag.ingest_paths(paths)
rag_ingest_call ==
    /\ CanCall
    /\ \E path \in IngestPaths :
          call' = [Enter("rag_ingest", path, <<>>, <<>>, Unchecked) EXCEPT !.pc = "ingesting"]
    /\ UNCHANGED <<policyVars, auditVars, managerVars, symlinks, files, audit_log, spawned>>

\* ingest_paths comes back with what it indexed and skipped, or raises
rag_ingest_resume ==
    /\ At("rag_ingest", "ingesting")
    /\ \/ call' = [call EXCEPT !.pc = "audit"]
       \/ call' = [call EXCEPT !.pc = "raised", !.exc = "IngestError"]
    /\ UNCHANGED <<policyVars, auditVars, managerVars, symlinks, files, audit_log, spawned>>

rag_ingest_audit ==
    /\ At("rag_ingest", "audit")
    /\ audit_log' = Append(audit_log, AuditEvent("rag_ingest", call.path, ""))
    /\ call' = [call EXCEPT !.pc = "return"]
    /\ UNCHANGED <<policyVars, auditVars, managerVars, symlinks, files, spawned>>

rag_ingest_return ==
    /\ At("rag_ingest", "return")
    /\ call' = [call EXCEPT !.pc = "returned",
                            !.result = ToolResult(TRUE, None, None,
                                                  <<[indexed |-> <<call.path>>, skipped |-> <<>>]>>)]
    /\ UNCHANGED <<policyVars, auditVars, managerVars, symlinks, files, audit_log, spawned>>

\* a file operation of write_file fails: the OSError leaves the method
write_file_oserror ==
    /\ call.op = "write_file"
    /\ call.pc \in {"mkdir", "bak_open", "bak_write", "tmp_open", "tmp_write", "replace"}
    /\ call' = [call EXCEPT !.pc = "raised", !.exc = "OSError"]
    /\ UNCHANGED <<policyVars, auditVars, managerVars, symlinks, files, audit_log, spawned>>

\* the server process stops in the middle of a call
Crash ==
    /\ ~Finished
    /\ call' = [call EXCEPT !.pc = "crashed"]
    /\ UNCHANGED <<policyVars, auditVars, managerVars, symlinks, files, audit_log, spawned>>

NextSkill ==
    \/ read_file_check
    \/ read_file_read
    \/ read_file_audit
    \/ read_file_return
    \/ write_file_check
    \/ write_file_mkdir
    \/ write_file_exists
    \/ write_file_bak_open
    \/ write_file_bak_write
    \/ write_file_tmp_open
    \/ write_file_tmp_write
    \/ write_file_replace
    \/ write_file_audit
    \/ write_file_return
    \/ run_command_check
    \/ run_command_run
    \/ run_command_audit
    \/ run_command_return
    \/ rag_ingest_call
    \/ rag_ingest_resume
    \/ rag_ingest_audit
    \/ rag_ingest_return
    \/ write_file_oserror
    \/ Crash

SpecSkill == InitSkill /\ [][NextSkill]_vars

----------------------------------------------------------------------------
(* State machine of the audit logger: one configured rule list, one payload *)

InitAudit ==
    /\ config = PermissionConfig(TRUE, TRUE, TRUE)
    /\ approvals = <<>>
    /\ clock = 0
    /\ symlinks = DirB
    /\ decision = NoDecision
    /\ files = InitialFiles
    /\ audit_log = <<>>
    /\ spawned = <<>>
    /\ call = IdleCall
    /\ redact_patterns \in RuleLists
    /\ payload \in Payloads
    /\ redacted = NotYet
    /\ passes = <<>>
    /\ log_lines = <<>>
    /\ log_calls = <<>>
    /\ ManagerAtRest

\* AuditLogger.log(p) called by `by`: stamp the caller's dict, redact, open the
\* file for appending, encode, write one line. json.dumps raising leaves the
\* with block before anything is written.
Log(by, p) ==
    LET stamped == SetItem(p, K_timestamp, Str(IsoFormat(clock)))
        out == _redact(stamped, redact_patterns)
    IN  /\ payload' = stamped
        /\ redacted' = out
        /\ IF Serializable(out)
           THEN /\ log_lines' = Append(log_lines, Dumps(out) \o <<"\n">>)
                /\ log_calls' = Append(log_calls, [by |-> by, raised |-> NoException])
           ELSE /\ log_lines' = log_lines
                /\ log_calls' = Append(log_calls, [by |-> by, raised |-> TypeError])
        /\ UNCHANGED <<policyVars, symlinks, skillVars, managerVars, redact_patterns, passes>>

\* the configured logger is handed the payload
log ==
    /\ Len(log_calls) < MaxLines
    /\ Log("request", payload)

\* AuditLogger._redact applied to the payload, then to what it returned
redact_pass ==
    /\ Len(passes) < MaxPasses
    /\ passes' = Append(passes, _redact(IF passes = <<>> THEN payload
                                        ELSE passes[Len(passes)], redact_patterns))
    /\ UNCHANGED <<policyVars, symlinks, skillVars, managerVars, redact_patterns, payload, redacted,
                   log_lines, log_calls>>

NextAudit == log

SpecAudit == InitAudit /\ [][NextAudit]_vars

NextRedact == redact_pass

\* requests and skill invocations on one event loop, each handing its event to
\* log; log has no await in it, so a call runs to its end before the next starts
InitLog ==
    /\ config = PermissionConfig(TRUE, TRUE, TRUE)
    /\ approvals = <<>>
    /\ clock = 0
    /\ symlinks = DirB
    /\ decision = NoDecision
    /\ files = InitialFiles
    /\ audit_log = <<>>
    /\ spawned = <<>>
    /\ call = IdleCall
    /\ AuditAtRest
    /\ ManagerAtRest

log_event ==
    /\ Len(log_calls) < MaxLogCalls
    /\ \E by \in Callers, p \in Events : Log(by, p)

NextLog == log_event

SpecLog == InitLog /\ [][NextLog]_vars

\* the pure function _redact on its own
SpecRedact == InitAudit /\ [][NextRedact]_vars

----------------------------------------------------------------------------
(* State machine of the skill manager: construction, then concurrent run calls *)

InitManager ==
    /\ config = PermissionConfig(TRUE, TRUE, TRUE)
    /\ approvals = <<>>
    /\ clock = 0
    /\ symlinks = DirB
    /\ decision = NoDecision
    /\ files = InitialFiles
    /\ audit_log = <<>>
    /\ spawned = <<>>
    /\ call = IdleCall
    /\ AuditAtRest
    /\ ServerAtRest
    /\ ledger_calls = <<>>
    /\ skills_dir \in SkillTrees
    /\ manager = [state |-> "unbuilt", exc |-> "", manifests |-> <<>>]
    /\ invocations = <<>>
    /\ factory_calls = <<>>

\* SkillManager(skills_dir, context_factory) in create_app
SkillManager_init ==
    /\ manager.state = "unbuilt"
    /\ LET loaded == _load_manifests(skills_dir)
       IN  manager' = [state |-> IF loaded.raised THEN "raised" ELSE "ready",
                       exc |-> loaded.exc, manifests |-> loaded.manifests]
    /\ UNCHANGED <<policyVars, symlinks, skillVars, auditVars, skills_dir, invocations,
                   factory_calls>>

\* the names a caller asks for: those registered, and one that is not
RunNames == { manager.manifests[i].name : i \in 1..Len(manager.manifests) } \cup {N_ghost}

\* await skill_manager.run(skill_name, args), up to its return or its first await
run_call ==
    /\ manager.state = "ready"
    /\ Len(invocations) < MaxRuns
    /\ \E skill_name \in RunNames, args \in RunPayloads :
          LET r == run(skills_dir, manager.manifests, factory_calls, config,
                       Len(invocations) + 1, skill_name, args)
          IN  /\ invocations' = Append(invocations, r.inv)
              /\ factory_calls' = r.calls
    /\ UNCHANGED <<policyVars, symlinks, skillVars, auditVars, skills_dir, manager>>

\* the awaited handler of one invocation completes
run_resume ==
    /\ \E i \in 1..Len(invocations) :
          /\ invocations[i].pc = "awaiting"
          /\ invocations' = [invocations EXCEPT
                                ![i].pc = "returned",
                                ![i].result = Wrap(invocations[i].pending),
                                ![i].pending = NoOutcome]
    /\ UNCHANGED <<policyVars, symlinks, skillVars, auditVars, skills_dir, manager,
                   factory_calls>>

NextManager == SkillManager_init \/ run_call \/ run_resume

SpecManager == InitManager /\ [][NextManager]_vars

----------------------------------------------------------------------------
(* Notions the properties are stated in *)

\* p is e or lies below e
Contained(p, e) == \E n \in 0..Len(p) : SubSeq(p, 1, n) = e

Members(list) == { list[k] : k \in 1..Len(list) }

\* the static allowlist of the evaluated kind matches the target
StaticMatch(d) ==
    CASE d.op = "check_file_read" ->
            \E e \in Members(config.file_read_allowlist) :
                Contained(Resolve(d.target, symlinks), Resolve(e, symlinks))
      [] d.op = "check_file_write" ->
            \E e \in Members(config.file_write_allowlist) :
                Contained(Resolve(d.target, symlinks), Resolve(e, symlinks))
      [] d.op = "check_terminal" -> d.target \in Members(config.terminal_allowlist)
      [] d.op = "check_skill" -> d.target \in Members(config.skills_enabled)
      [] OTHER -> FALSE

KindOf(op) ==
    CASE op = "check_file_read" -> "file_read"
      [] op = "check_file_write" -> "file_write"
      [] op = "check_terminal" -> "terminal"
      [] OTHER -> "skill"

ScopeOf(d) == <<KindOf(d.op), ":">> \o d.target

RecordsFor(scope) == { k \in 1..Len(approvals) : approvals[k].scope = scope }

\* the grant has not passed at the current time
Unexpired(r) ==
    \/ r.expires_at.kind = "none"
    \/ r.expires_at.kind = "aware" /\ r.expires_at.t >= clock

GateClosed(d) ==
    \/ ~config.tools_enabled
    \/ d.op = "check_terminal" /\ ~config.terminal_enabled

Denied(d) == ~d.res.raised /\ ~d.res.allowed /\ d.res.requires_approval

\* C1: with tools_enabled false every check, and with terminal_enabled false
\* check_terminal, returns allowed=false with requires_approval=true, whatever
\* the allowlists and the ledger hold.
C1_GatePrecedence ==
    (decision.op # "none" /\ GateClosed(decision)) => Denied(decision)

\* check_terminal was evaluated with only the terminal switch off, for a command
\* that is allowlisted and holds a grant that never expires
C1_Witness ==
    /\ decision.op = "check_terminal"
    /\ config.tools_enabled /\ ~config.terminal_enabled
    /\ StaticMatch(decision)
    /\ \E k \in RecordsFor(ScopeOf(decision)) : approvals[k].expires_at.kind = "none"
    /\ Denied(decision)

IsPathCheck(d) == d.op \in {"check_file_read", "check_file_write"}

\* C3: a path whose resolved form is not inside any resolved allowlist entry never
\* gets the "Allowlisted path" decision, and without a grant for its scope it is
\* denied.
C3_AllowlistContainment ==
    (IsPathCheck(decision) /\ ~StaticMatch(decision)) =>
        /\ decision.res.reason # "Allowlisted path"
        /\ (RecordsFor(ScopeOf(decision)) = {} => ~decision.res.raised /\ ~decision.res.allowed)

\* /ab/s was checked against the allowlist entry /a, whose string is its prefix
C3_Witness ==
    /\ decision.op = "check_file_read"
    /\ decision.target = P_ab_s
    /\ config.tools_enabled
    /\ A_a \in Members(config.file_read_allowlist)
    /\ StartsWith(decision.target, A_a)
    /\ Denied(decision)

\* C4: with the class enabled and no static match, a grant for exactly the scope
\* with no expiry or a future expiry yields allowed=true; only expired grants for
\* the scope, or only grants for other scopes, yield allowed=false.
C4_LedgerExpiryExactScope ==
    (decision.op # "none" /\ ~GateClosed(decision) /\ ~StaticMatch(decision)) =>
        LET mine == RecordsFor(ScopeOf(decision))
        IN  /\ (\E k \in mine : approvals[k].expires_at.kind = "none" \/ approvals[k].expires_at.t > clock)
                  => (~decision.res.raised /\ decision.res.allowed)
            /\ (\A k \in mine : approvals[k].expires_at.kind # "none" /\ approvals[k].expires_at.t < clock)
                  => (~decision.res.raised /\ ~decision.res.allowed)

CallDenied == call.op # "none" /\ ~call.dec.raised /\ ~call.dec.allowed

CallAllowed == call.op # "none" /\ ~call.dec.raised /\ call.dec.allowed

\* C5: a call the policy denies leaves every file as it was, starts no process,
\* appends no audit event, and has come back with a ToolResult whose success is
\* false and whose metadata carries the decision.
C5_DenialNoSideEffects ==
    CallDenied =>
        /\ call.pc = "returned"
        /\ ~call.result.success
        /\ call.result.metadata = <<call.dec>>
        /\ files = call.files0
        /\ Len(audit_log) = call.audit0
        /\ Len(spawned) = call.spawned0

\* a write to an existing file outside the allowlist was denied
C5_Witness ==
    /\ CallDenied
    /\ call.op = "write_file"
    /\ config.tools_enabled
    /\ call.files0[TargetFile].exists
    /\ call.pc = "returned"

\* C6: a call the policy allows has appended exactly one audit event by the time
\* it is over, whatever became of the file or process operation.
C6_AuditCompleteness ==
    (CallAllowed /\ call.pc \in {"returned", "raised"}) =>
        Len(audit_log) = call.audit0 + 1

CompleteTexts == {V_old} \cup Contents

\* C10: at every step of write_file, and after a failure or a stop at any of them,
\* the target holds what it held when the call began (or is still absent) or the
\* whole new content, and never part of a text.
C10_AtomicWrite ==
    call.op = "write_file" =>
        /\ files[TargetFile] \in {call.files0[TargetFile], File(call.content)}
        /\ files[TargetFile].exists => files[TargetFile].data \in CompleteTexts

\* the process stopped with the temporary file half written and the target intact
C10_Witness ==
    /\ call.op = "write_file"
    /\ call.pc = "crashed"
    /\ files[TargetFile] = File(V_old)
    /\ files[TempFile].exists
    /\ Len(files[TempFile].data) = 1
    /\ Len(call.content) = 2

----------------------------------------------------------------------------
(* Redaction properties *)

Child(v, i) == IF v.t = "dict" THEN v.v[i].val ELSE v.v[i]

Missing == [t |-> "missing", v |-> <<>>]

RECURSIVE NodePaths(_)
\* the positions of all nodes of a value, each a sequence of child indices
NodePaths(v) ==
    {<<>>} \cup
    (IF v.t \in {"dict", "list"}
     THEN UNION { { <<i>> \o p : p \in NodePaths(Child(v, i)) } : i \in 1..Len(v.v) }
     ELSE {})

RECURSIVE NodeAt(_, _)
NodeAt(v, path) ==
    IF path = <<>> THEN v
    ELSE IF v.t \in {"dict", "list"} /\ Head(path) <= Len(v.v)
         THEN NodeAt(Child(v, Head(path)), Tail(path))
         ELSE Missing

RECURSIVE InOrder(_, _)
\* the last rule applied to what the rules before it made of the text
InOrder(rules, s) ==
    IF rules = <<>> THEN s
    ELSE Sub(rules[Len(rules)], InOrder(SubSeq(rules, 1, Len(rules) - 1), s))

ShippedOnly == \A i \in 1..Len(redact_patterns) : redact_patterns[i] \in {PatApiKey, PatToken, PatPassword}

C8_RedactionIdempotence ==
    \A i \in 2..Len(passes) : passes[i] = passes[1]

\* C8 (amended): when every configured rule is one of the patterns AuditConfig
\* ships with, in any order, redacting the result of a redaction gives that
\* result again.
C8_IdempotentUnderShippedRules ==
    ShippedOnly => \A i \in 2..Len(passes) : passes[i] = passes[1]

\* two passes under shipped rules, the first of which redacted something
C8_Witness ==
    /\ ShippedOnly
    /\ Len(passes) >= 2
    /\ passes[1] # payload
    /\ passes[2] = passes[1]

\* C9: no line of the log has a substring that matches a configured pattern.
C9_NoSecretInLine ==
    \A n \in 1..Len(log_lines) : \A k \in 1..Len(redact_patterns) :
        ~Search(redact_patterns[k], log_lines[n])

\* C14: every policy check hands back an ApprovalDecision; none ends in an
\* exception, whatever grants POST /approvals has accepted.
C14_ChecksNeverRaise ==
    decision.op # "none" => ~decision.res.raised

----------------------------------------------------------------------------
(* Skill manager properties *)

DirsOf(tree) == { tree.dirs[i] : i \in 1..Len(tree.dirs) }

\* what the handler of an invocation does with its arguments, read off the skill's source
HandlerOutcome(inv) ==
    LET ds == { d \in DirsOf(skills_dir) : d.dir = inv.name /\ d.code.load = "ok" }
    IN  IF ds = {} THEN NoOutcome ELSE Handler((CHOOSE d \in ds : TRUE).code, inv.args)

Ended(inv) == inv.pc # "awaiting"

HandlerRaised(inv) == inv.called /\ Ended(inv) /\ HandlerOutcome(inv).kind = "raise"

\* json.dumps({"ok": True})
J_ok == <<"{", "\"", "o", "k", "\"", ":", " ", "t", "r", "u", "e", "}">>

\* C11: an invocation whose handler raised has returned success=false with the
\* exception's message; the manager stays ready, and an invocation that ends
\* after such a failure gets what its own skill and arguments give: the same as
\* any other ended invocation of that skill with those arguments, and for echo
\* with the ok payload the successful wrapped value.
C11_FaultIsolation ==
    \A i \in 1..Len(invocations) :
        HandlerRaised(invocations[i]) =>
            /\ invocations[i].pc = "returned"
            /\ ~invocations[i].result.success
            /\ invocations[i].result.error = Some(HandlerOutcome(invocations[i]).v)
            /\ manager.state = "ready"
            /\ \A j \in (i + 1)..Len(invocations) :
                  Ended(invocations[j]) =>
                      /\ \A k \in 1..Len(invocations) :
                            (/\ Ended(invocations[k])
                             /\ invocations[k].name = invocations[j].name
                             /\ invocations[k].args = invocations[j].args)
                            => (/\ invocations[k].pc = invocations[j].pc
                                /\ invocations[k].result = invocations[j].result)
                      /\ (invocations[j].name = N_echo /\ invocations[j].args = P_ok)
                            => invocations[j].result = ToolResult(TRUE, Some(J_ok), None, <<>>)

\* echo raised on the boom payload and was then run again with the ok payload
C11_Witness ==
    /\ Len(invocations) >= 2
    /\ invocations[1].name = N_echo /\ invocations[1].args = P_boom
    /\ HandlerRaised(invocations[1])
    /\ invocations[1].result = Failure(E_boom)
    /\ invocations[2].name = N_echo /\ invocations[2].args = P_ok
    /\ invocations[2].result.success

\* C12: no run call ends by raising to its caller.
C12_RunnerExceptionFree ==
    \A i \in 1..Len(invocations) : invocations[i].pc # "raised"

\* C13 (as stated): a ToolResult the handler returned is what run returns; for
\* any other returned value run returns success=true.
C13_ResultWrapping ==
    \A i \in 1..Len(invocations) :
        (invocations[i].called /\ invocations[i].pc = "returned") =>
            LET o == HandlerOutcome(invocations[i])
            IN  /\ o.kind = "tool_result" => invocations[i].result = o.v
                /\ o.kind \in {"value", "object"} => invocations[i].result.success

\* C13 (amended): a ToolResult the handler returned is what run returns; for any
\* other returned value that json.dumps can encode run returns success=true with
\* the JSON text as output, no error and empty metadata.
C13_WrapsSerializableValues ==
    \A i \in 1..Len(invocations) :
        (invocations[i].called /\ invocations[i].pc = "returned") =>
            LET o == HandlerOutcome(invocations[i])
            IN  /\ o.kind = "tool_result" => invocations[i].result = o.v
                /\ (o.kind = "value" /\ o.v = Dict(<<Item(<<"o", "k">>, Bool(TRUE))>>))
                      => invocations[i].result = ToolResult(TRUE, Some(J_ok), None, <<>>)
                /\ o.kind = "value"
                      => (/\ invocations[i].result.success
                          /\ invocations[i].result.output.some
                          /\ invocations[i].result.error = None)

\* one handler returned a failed ToolResult, another returned {"ok": true}
C13_Witness ==
    /\ \E i \in 1..Len(invocations) :
          /\ invocations[i].pc = "returned"
          /\ HandlerOutcome(invocations[i]).kind = "tool_result"
          /\ ~invocations[i].result.success
    /\ \E i \in 1..Len(invocations) :
          /\ invocations[i].pc = "returned"
          /\ HandlerOutcome(invocations[i]).kind = "value"
          /\ invocations[i].result.output = Some(J_ok)

WellFormed(d) == d.has_manifest /\ d.manifest.json /\ d.manifest.has_name

\* C17: construction of the registry ends without an exception and registers
\* exactly the names of the well-formed manifests.
C17_MalformedManifestsIsolated ==
    manager.state # "unbuilt" =>
        /\ manager.state = "ready"
        /\ { manager.manifests[i].name : i \in 1..Len(manager.manifests) }
              = { d.manifest.name : d \in { e \in DirsOf(skills_dir) : WellFormed(e) } }

Registered(name) == \E i \in 1..Len(manager.manifests) : manager.manifests[i].name = name

\* the registered manifest of that name points at a file its directory does not hold
EntrypointAbsent(name) ==
    /\ Registered(name)
    /\ \A d \in DirsOf(skills_dir) :
          d.dir = name =>
              d.file # (IF d.manifest.has_entrypoint THEN d.manifest.entrypoint ELSE F_skill_py)

CallsBy(i) == { k \in 1..Len(factory_calls) : factory_calls[k].by = i }

\* C18: a run for an unregistered name has returned success=false with "Skill
\* not found", a run for a manifest whose entrypoint file is absent has returned
\* success=false with "Skill entrypoint missing"; neither built a context nor
\* executed skill source or handler.
C18_ResolutionFailures ==
    \A i \in 1..Len(invocations) :
        LET inv == invocations[i]
            quiet == /\ inv.pc = "returned"
                     /\ ~inv.result.success
                     /\ inv.context = 0
                     /\ CallsBy(i) = {}
                     /\ ~inv.loaded
                     /\ ~inv.called
        IN  /\ ~Registered(inv.name) => (quiet /\ inv.result.error = Some(E_not_found))
            /\ EntrypointAbsent(inv.name)
                  => (quiet /\ inv.result.error = Some(E_entrypoint_missing))

\* an unregistered name and a manifest without its file were both run
C18_Witness ==
    /\ factory_calls = <<>>
    /\ \E i \in 1..Len(invocations) : ~Registered(invocations[i].name)
    /\ \E i \in 1..Len(invocations) :
          EntrypointAbsent(invocations[i].name) /\ invocations[i].name = N_gone

\* C19: an invocation that reached its handler holds the context of the one
\* context_factory call made for it, and no context or policy engine is held by
\* two factory calls, so none by two invocations.
C19_FreshContextPerInvocation ==
    /\ \A i \in 1..Len(invocations) :
          invocations[i].called =>
              /\ Cardinality(CallsBy(i)) = 1
              /\ \A k \in CallsBy(i) : factory_calls[k].context = invocations[i].context
    /\ \A k, l \in 1..Len(factory_calls) :
          k # l => /\ factory_calls[k].context # factory_calls[l].context
                   /\ factory_calls[k].policy # factory_calls[l].policy
    /\ \A i, j \in 1..Len(invocations) :
          (i # j /\ invocations[i].called /\ invocations[j].called)
              => invocations[i].context # invocations[j].context

\* two invocations are inside their handlers at the same time
C19_Witness ==
    \E i, j \in 1..Len(invocations) :
        /\ i # j
        /\ invocations[i].pc = "awaiting"
        /\ invocations[j].pc = "awaiting"
        /\ invocations[i].context # invocations[j].context

----------------------------------------------------------------------------
(* Audit log properties *)

\* C15: every log call made so far returned normally, and each of them left a
\* record in the file.
C15_LogNeverRaises ==
    /\ \A i \in 1..Len(log_calls) : log_calls[i].raised = NoException
    /\ Len(log_lines) = Len(log_calls)

HasKey(d, key) == d.t = "dict" /\ \E i \in 1..Len(d.v) : d.v[i].key = key

\* C16: whoever calls log and in whatever order, a call leaves the file as it
\* was with exactly one line after it: the JSON text of a mapping that has a
\* timestamp, ended by the only newline in it.
C16_AppendOnlyIntact ==
    [][log_calls' # log_calls =>
          \E doc \in {redacted'} :
              /\ HasKey(doc, K_timestamp)
              /\ Serializable(doc)
              /\ log_lines' = Append(log_lines, Dumps(doc) \o <<"\n">>)
              /\ \A i \in 1..Len(Dumps(doc)) : Dumps(doc)[i] # "\n"]_vars

----------------------------------------------------------------------------
(* Ledger properties *)

\* the add calls among the first n ledger calls, as the records they appended
RECURSIVE Granted(_)
Granted(n) ==
    IF n = 0 THEN <<>>
    ELSE IF ledger_calls[n].op = "add"
         THEN Append(Granted(n - 1),
                     ApprovalRecord(ledger_calls[n].scope, ledger_calls[n].expires_at))
         ELSE Granted(n - 1)

\* C20: in every order of the add and is_approved calls of concurrent requests,
\* the ledger holds every grant added, whole and in the order added; every
\* check comes back with true or false; and a check of a scope made after an
\* add of that scope without expiry has completed comes back with true.
C20_LedgerConcurrentSafe ==
    /\ approvals = Granted(Len(ledger_calls))
    /\ \A j \in 1..Len(ledger_calls) :
          ledger_calls[j].op = "is_approved" =>
              /\ ledger_calls[j].result \in {"true", "false"}
              /\ (\E i \in 1..(j - 1) :
                     /\ ledger_calls[i].op = "add"
                     /\ ledger_calls[i].scope = ledger_calls[j].scope
                     /\ ledger_calls[i].expires_at = NoExpiry)
                  => ledger_calls[j].result = "true"

\* a record that approves at time t as the design has it: no expiry, or an
\* expiry strictly after t
ApprovesAt(r, t) == r.expires_at.kind = "none" \/ r.expires_at.t > t

\* the records of the scope a check met, those the adds before it appended
Met(j) ==
    LET before == Granted(j - 1)
    IN  { k \in 1..Len(before) : before[k].scope = ledger_calls[j].scope }

\* C25: a check that came back true at time t had a record of exactly its scope
\* with no expiry or an expiry strictly greater than t; an expiry equal to t
\* does not approve.
C25_ExpiryBoundaryStrict ==
    \A j \in 1..Len(ledger_calls) :
        (ledger_calls[j].op = "is_approved" /\ ledger_calls[j].result = "true") =>
            \E k \in Met(j) : ApprovesAt(Granted(j - 1)[k], ledger_calls[j].at)

\* C26: the ledger is the grants in call order, none removed, merged or
\* changed; and a check comes back true exactly when some record of its scope
\* is unexpired, wherever in the ledger that record stands.
C26_MostPermissiveGrantWins ==
    /\ approvals = Granted(Len(ledger_calls))
    /\ \A j \in 1..Len(ledger_calls) :
          ledger_calls[j].op = "is_approved" =>
              (ledger_calls[j].result = "true"
                  <=> \E k \in Met(j) : ApprovesAt(Granted(j - 1)[k], ledger_calls[j].at))

----------------------------------------------------------------------------
(* Skill context properties *)

\* C22: rag_ingest asks the policy nothing, and from the moment ingest_paths has
\* been called its audit event is in the log, also when ingest_paths fails.
C22_IngestLogsBeforeDelegating ==
    (call.op = "rag_ingest" /\ call.pc # "idle") =>
        /\ call.dec = Unchecked
        /\ Len(audit_log) = call.audit0 + 1
        /\ audit_log[Len(audit_log)].tool = "rag_ingest"

\* C23: a call the policy allows comes back with a ToolResult whatever the file
\* or process operation under it does; when that operation failed, the result
\* has success=false and error set.
C23_ResourceFaultsAsData ==
    (CallAllowed /\ call.op \in {"read_file", "write_file", "run_command"}) =>
        /\ call.pc # "raised"
        /\ (call.pc = "returned" /\ call.op = "read_file" /\ ~call.files0[TargetFile].exists)
              => (~call.result.success /\ call.result.error.some)

\* C27: once a write_file call has succeeded, the backup holds what the target
\* held when the call began, or is as it was when the target did not exist; and
\* at no step of the call has the target changed before the backup was complete.
C27_SingleGenerationBackup ==
    call.op = "write_file" =>
        /\ (call.pc = "returned" /\ call.result.success) =>
              IF call.files0[TargetFile].exists
              THEN files[BackupFile] = call.files0[TargetFile]
              ELSE files[BackupFile] = call.files0[BackupFile]
        /\ (call.files0[TargetFile].exists /\ files[TargetFile] # call.files0[TargetFile])
              => files[BackupFile] = call.files0[TargetFile]

\* the child was started by this call
Launched == Len(spawned) > call.spawned0

\* C28: an allowed run_command that is over has come back with a ToolResult: for
\* a child that exited with 0, success=true and the child's stdout followed by
\* its stderr; for a child that exited with another code, success=false, the
\* same output and no error; for a child that could not be started,
\* success=false, error set and no output.
C28_CommandOutcomeClassification ==
    (CallAllowed /\ call.op = "run_command" /\ call.pc \in {"returned", "raised"}) =>
        /\ call.pc = "returned"
        /\ IF Launched
           THEN /\ call.result.success = (call.child.rc = 0)
                /\ call.result.output = Some(call.child.stdout \o call.child.stderr)
                /\ ~call.result.error.some
           ELSE /\ ~call.result.success
                /\ call.result.error.some
                /\ ~call.result.output.some

\* the directory whose manifest stands in the registry under a name: the last
\* one enumerated among those whose manifest gives that name
DiscoveredIn(name) ==
    LET at == { i \in 1..Len(skills_dir.dirs) :
                  WellFormed(skills_dir.dirs[i]) /\ skills_dir.dirs[i].manifest.name = name }
    IN  skills_dir.dirs[CHOOSE i \in at : \A j \in at : j <= i]

\* C29: a run of a registered name whose directory holds the entrypoint file has
\* read and executed the file of that directory, whatever the directory is called.
C29_EntrypointInOwnDirectory ==
    \A i \in 1..Len(invocations) :
        LET inv == invocations[i]
        IN  Registered(inv.name) =>
                LET d == DiscoveredIn(inv.name)
                IN  d.file = (IF d.manifest.has_entrypoint THEN d.manifest.entrypoint
                              ELSE F_skill_py)
                        => (inv.loaded /\ inv.dir = d.dir)

\* the source run by an invocation that reached its handler
CodeOf(inv) == (CHOOSE d \in DirsOf(skills_dir) : d.dir = inv.dir).code

SameBody(a, b) == a.on_ok = b.on_ok /\ a.on_boom = b.on_boom /\ a.on_odd = b.on_odd

\* C30: two ended invocations with the same arguments whose entrypoints have the
\* same body, one a plain function and one a coroutine function, ended the same
\* way with the same ToolResult; and when an entrypoint handed back an awaitable,
\* the caller got what awaiting it gives.
C30_SyncAsyncEquivalent ==
    /\ \A i, j \in 1..Len(invocations) :
          LET a == invocations[i]
              b == invocations[j]
          IN  (/\ a.called /\ b.called /\ Ended(a) /\ Ended(b)
               /\ a.args = b.args
               /\ SameBody(CodeOf(a), CodeOf(b))
               /\ CodeOf(a).is_async # CodeOf(b).is_async)
              => (a.pc = b.pc /\ a.result = b.result)
    /\ \A i \in 1..Len(invocations) :
          LET a == invocations[i]
          IN  (a.called /\ Ended(a) /\ HandlerOutcome(a).kind = "awaitable")
                  => a.result = Wrap(HandlerOutcome(a).v)

----------------------------------------------------------------------------
(* The server's event loop: uvicorn runs every endpoint coroutine on one thread *)

MaxRequests == 3

\* POST /skills/run of a skill whose run() calls context.run_command, read_file or
\* write_file; POST /skills/run of a skill that awaits context.rag_ingest; and a
\* request that touches no skill, such as GET /config or POST /approvals
RequestKinds == {"blocking_skill", "awaiting_skill", "plain"}

Request(kind, pc) == [kind |-> kind, pc |-> pc]

LoopIdle == loop.running = 0

SetTask(i, pc, running) ==
    loop' = [tasks |-> [loop.tasks EXCEPT ![i].pc = pc], running |-> running]

\* a request arrives; its coroutine is scheduled and waits for the thread
request_arrives ==
    /\ Len(loop.tasks) < MaxRequests
    /\ \E kind \in RequestKinds :
          loop' = [loop EXCEPT !.tasks = Append(@, Request(kind, "pending"))]
    /\ UNCHANGED <<config, approvals, clock, decision, ledger_calls, config_store, writers, scheduler, http,
                   symlinks, skillVars, auditVars, managerVars>>

\* the loop takes a scheduled coroutine and runs it to its first suspension: a
\* plain endpoint returns, rag_ingest suspends at its await and gives the thread
\* back, and a synchronous context call (subprocess.run, read_text, write_text) is
\* made on the loop's own thread, which stays inside it
request_start(i) ==
    /\ i \in 1..Len(loop.tasks)
    /\ LoopIdle
    /\ loop.tasks[i].pc = "pending"
    /\ CASE loop.tasks[i].kind = "plain" -> SetTask(i, "done", 0)
         [] loop.tasks[i].kind = "awaiting_skill" -> SetTask(i, "awaiting", 0)
         [] OTHER -> SetTask(i, "blocked", i)
    /\ UNCHANGED <<config, approvals, clock, decision, ledger_calls, config_store, writers, scheduler, http,
                   symlinks, skillVars, auditVars, managerVars>>

\* the blocking call returns (the child exits, the file call completes); run() and
\* run_skill go on to their return on the same turn
blocking_call_returns(i) ==
    /\ i \in 1..Len(loop.tasks)
    /\ loop.running = i
    /\ loop.tasks[i].pc = "blocked"
    /\ SetTask(i, "done", 0)
    /\ UNCHANGED <<config, approvals, clock, decision, ledger_calls, config_store, writers, scheduler, http,
                   symlinks, skillVars, auditVars, managerVars>>

\* the awaited response arrives: the coroutine is scheduled again
await_completes(i) ==
    /\ i \in 1..Len(loop.tasks)
    /\ loop.tasks[i].pc = "awaiting"
    /\ SetTask(i, "ready", loop.running)
    /\ UNCHANGED <<config, approvals, clock, decision, ledger_calls, config_store, writers, scheduler, http,
                   symlinks, skillVars, auditVars, managerVars>>

\* the loop resumes a coroutine whose await completed and runs it to its return
request_resume(i) ==
    /\ i \in 1..Len(loop.tasks)
    /\ LoopIdle
    /\ loop.tasks[i].pc = "ready"
    /\ SetTask(i, "done", 0)
    /\ UNCHANGED <<config, approvals, clock, decision, ledger_calls, config_store, writers, scheduler, http,
                   symlinks, skillVars, auditVars, managerVars>>

InitLoop ==
    /\ config = PermissionConfig(TRUE, TRUE, TRUE)
    /\ approvals = <<>>
    /\ clock = 0
    /\ symlinks = DirB
    /\ decision = NoDecision
    /\ files = InitialFiles
    /\ audit_log = <<>>
    /\ spawned = <<>>
    /\ call = IdleCall
    /\ AuditAtRest
    /\ ManagerAtRest

NextLoop ==
    \/ request_arrives
    \/ \E i \in 1..MaxRequests : request_start(i)
    \/ \E i \in 1..MaxRequests : blocking_call_returns(i)
    \/ \E i \in 1..MaxRequests : await_completes(i)
    \/ \E i \in 1..MaxRequests : request_resume(i)

SpecLoop == InitLoop /\ [][NextLoop]_vars

\* The loop runs whatever is scheduled whenever its thread is free, and a
\* response awaited from the local Ollama arrives or times out (timeout=60); the
\* call subprocess.run(command, ...) is given no timeout, so nothing makes a
\* blocking call return.
SpecLoopFair ==
    /\ InitLoop
    /\ [][NextLoop]_vars
    /\ \A i \in 1..MaxRequests : WF_vars(request_start(i))
    /\ \A i \in 1..MaxRequests : WF_vars(request_resume(i))
    /\ \A i \in 1..MaxRequests : WF_vars(await_completes(i))

Blocked(i) == i \in 1..Len(loop.tasks) /\ loop.tasks[i].pc = "blocked"

Unrelated(r) == r \in 1..Len(loop.tasks) /\ loop.tasks[r].kind = "plain"

\* C21: whenever one invocation is blocked inside a context call and an unrelated
\* request is waiting, that request gets completed or the blocked call has
\* returned: the request is never held up for as long as the call stays blocked.
C21_BlockingSkillsDoNotStall ==
    \A i, r \in 1..MaxRequests :
        (Blocked(i) /\ Unrelated(r) /\ loop.tasks[r].pc = "pending")
            ~> ((Unrelated(r) /\ loop.tasks[r].pc = "done") \/ ~Blocked(i))

----------------------------------------------------------------------------
(* Configuration store: AppConfig, its JSON form, config.json, GET and POST /config *)

K_ollama_base_url == <<"o", "l", "l", "a", "m", "a", "_", "b", "a", "s", "e", "_", "u", "r", "l">>
K_routing == <<"r", "o", "u", "t", "i", "n", "g">>
K_speed_quality == <<"s", "p", "e", "e", "d", "_", "q", "u", "a", "l", "i", "t", "y">>
K_rules == <<"r", "u", "l", "e", "s">>
K_default_model == <<"d", "e", "f", "a", "u", "l", "t", "_", "m", "o", "d", "e", "l">>
K_permissions == <<"p", "e", "r", "m", "i", "s", "s", "i", "o", "n", "s">>
K_tools_enabled == <<"t", "o", "o", "l", "s", "_", "e", "n", "a", "b", "l", "e", "d">>
K_file_read_allowlist == <<"f", "i", "l", "e", "_", "r", "e", "a", "d", "_", "a", "l", "l", "o", "w", "l", "i", "s", "t">>
K_name == <<"n", "a", "m", "e">>
K_task_type == <<"t", "a", "s", "k", "_", "t", "y", "p", "e">>
K_model == <<"m", "o", "d", "e", "l">>

\* The fields carried here are one of each type AppConfig is built from: str, int,
\* bool, list[str], str | None, a Literal, a sub-model and a list of sub-models.
RouterRule(name, task_type, model) == [name |-> name, task_type |-> task_type, model |-> model]

RoutingConfig(speed_quality, rules, default_model) ==
    [speed_quality |-> speed_quality, rules |-> rules, default_model |-> default_model]

Permissions(tools_enabled, file_read_allowlist) ==
    [tools_enabled |-> tools_enabled, file_read_allowlist |-> file_read_allowlist]

AppConfig(ollama_base_url, routing, permissions) ==
    [ollama_base_url |-> ollama_base_url, routing |-> routing, permissions |-> permissions]

TaskTypes == {<<"c", "o", "d", "i", "n", "g">>, <<"q", "a">>, <<"r", "e", "a", "s", "o", "n", "i", "n", "g">>, <<"v", "o", "i", "c", "e">>, <<"g", "e", "n", "e", "r", "a", "l">>, <<"a", "n", "y">>}

\* the first and the last of the five DEFAULT_ROUTER_RULES
DEFAULT_ROUTER_RULES ==
    <<RouterRule(<<"v", "o", "i", "c", "e", "_", "f", "a", "s", "t">>, <<"v", "o", "i", "c", "e">>, <<"l", "l", "a", "m", "a", "3">>), RouterRule(<<"f", "a", "l", "l", "b", "a", "c", "k", "_", "a", "n", "y">>, <<"a", "n", "y">>, <<"l", "l", "a", "m", "a", "3">>)>>

DefaultUrl == <<"h", "t", "t", "p", ":", "/", "/", "1", "2", "7", ".", "0", ".", "0", ".", "1", ":", "1", "1", "4", "3", "4">>

\* AppConfig()
DefaultAppConfig ==
    AppConfig(DefaultUrl, RoutingConfig(50, <<>>, None), Permissions(FALSE, <<>>))

Optional(chars) == [some |-> TRUE, v |-> chars]

\* config.model_dump(mode="json")
model_dump(c) ==
    Dict(<<Item(K_ollama_base_url, Str(c.ollama_base_url)),
           Item(K_routing,
                Dict(<<Item(K_speed_quality, Number(c.routing.speed_quality)),
                       Item(K_rules,
                            List([i \in 1..Len(c.routing.rules) |->
                                    Dict(<<Item(K_name, Str(c.routing.rules[i].name)),
                                           Item(K_task_type, Str(c.routing.rules[i].task_type)),
                                           Item(K_model, Str(c.routing.rules[i].model))>>)])),
                       Item(K_default_model,
                            IF c.routing.default_model.some
                            THEN Str(c.routing.default_model.v) ELSE Null)>>)),
           Item(K_permissions,
                Dict(<<Item(K_tools_enabled, Bool(c.permissions.tools_enabled)),
                       Item(K_file_read_allowlist,
                            List([i \in 1..Len(c.permissions.file_read_allowlist) |->
                                    Str(c.permissions.file_read_allowlist[i])]))>>))>>)

\* raw[key] if the key is there, else the field's default
Get(raw, key, default) ==
    IF \E i \in 1..Len(raw.v) : raw.v[i].key = key
    THEN raw.v[CHOOSE i \in 1..Len(raw.v) : raw.v[i].key = key].val
    ELSE default

ValidRule(raw) ==
    /\ raw.t = "dict"
    /\ HasKey(raw, K_name) /\ Get(raw, K_name, Null).t = "str"
    /\ HasKey(raw, K_task_type) /\ Get(raw, K_task_type, Null).t = "str"
    /\ Get(raw, K_task_type, Null).v \in TaskTypes
    /\ HasKey(raw, K_model) /\ Get(raw, K_model, Null).t = "str"

ValidRouting(raw) ==
    /\ raw.t = "dict"
    /\ Get(raw, K_speed_quality, Number(50)).t = "number"
    /\ LET rules == Get(raw, K_rules, List(<<>>))
       IN  rules.t = "list" /\ \A i \in 1..Len(rules.v) : ValidRule(rules.v[i])
    /\ Get(raw, K_default_model, Null).t \in {"str", "null"}

ValidPermissions(raw) ==
    /\ raw.t = "dict"
    /\ Get(raw, K_tools_enabled, Bool(FALSE)).t = "bool"
    /\ LET allow == Get(raw, K_file_read_allowlist, List(<<>>))
       IN  allow.t = "list" /\ \A i \in 1..Len(allow.v) : allow.v[i].t = "str"

ValidationError == [ok |-> FALSE, config |-> DefaultAppConfig]

\* AppConfig.model_validate(raw): a missing field takes its default, a key that is
\* no field is ignored, a value of another type than the field's is an error (the
\* coercions of pydantic's lax mode, 1 for true or "50" for 50, are left out: no
\* dumped configuration holds such a value)
model_validate(raw) ==
    IF ~(/\ raw.t = "dict"
         /\ Get(raw, K_ollama_base_url, Str(DefaultUrl)).t = "str"
         /\ ValidRouting(Get(raw, K_routing, Dict(<<>>)))
         /\ ValidPermissions(Get(raw, K_permissions, Dict(<<>>))))
    THEN ValidationError
    ELSE LET routing == Get(raw, K_routing, Dict(<<>>))
             rules == Get(routing, K_rules, List(<<>>)).v
             model == Get(routing, K_default_model, Null)
             permissions == Get(raw, K_permissions, Dict(<<>>))
             allow == Get(permissions, K_file_read_allowlist, List(<<>>)).v
         IN  [ok |-> TRUE,
              config |->
                AppConfig(Get(raw, K_ollama_base_url, Str(DefaultUrl)).v,
                          RoutingConfig(Get(routing, K_speed_quality, Number(50)).v,
                                        [i \in 1..Len(rules) |->
                                            RouterRule(Get(rules[i], K_name, Null).v,
                                                       Get(rules[i], K_task_type, Null).v,
                                                       Get(rules[i], K_model, Null).v)],
                                        IF model.t = "str" THEN Optional(model.v) ELSE None),
                          Permissions(Get(permissions, K_tools_enabled, Bool(FALSE)).v,
                                      [i \in 1..Len(allow) |-> allow[i].v]))]

Spaces(n) == [i \in 1..n |-> " "]

RECURSIVE JoinLines(_, _)
\* (",\n" + indentation).join(parts)
JoinLines(parts, level) ==
    IF Len(parts) = 1 THEN parts[1]
    ELSE parts[1] \o <<",", "\n">> \o Spaces(2 * level) \o JoinLines(Tail(parts), level)

RECURSIVE DumpsIndent(_, _)
\* json.dumps(value, indent=2), for a value nested level deep
DumpsIndent(value, level) ==
    CASE value.t = "dict" /\ value.v # <<>> ->
           <<"{", "\n">> \o Spaces(2 * (level + 1))
             \o JoinLines([i \in 1..Len(value.v) |->
                              DumpsStr(value.v[i].key) \o <<":", " ">>
                                  \o DumpsIndent(value.v[i].val, level + 1)], level + 1)
             \o <<"\n">> \o Spaces(2 * level) \o <<"}">>
      [] value.t = "list" /\ value.v # <<>> ->
           <<"[", "\n">> \o Spaces(2 * (level + 1))
             \o JoinLines([i \in 1..Len(value.v) |-> DumpsIndent(value.v[i], level + 1)],
                          level + 1)
             \o <<"\n">> \o Spaces(2 * level) \o <<"]">>
      [] OTHER -> Dumps(value)

IsWs(c) == c \in {" ", "\n", "\r", "\t"}

\* the first index from pos on that holds no whitespace, Len(text) + 1 if none does
SkipWs(text, pos) ==
    IF \E j \in pos..Len(text) : ~IsWs(text[j])
    THEN CHOOSE j \in pos..Len(text) :
             ~IsWs(text[j]) /\ \A k \in pos..(j - 1) : IsWs(text[k])
    ELSE Len(text) + 1

Parsed(v, pos) == [ok |-> TRUE, v |-> v, pos |-> pos]

JSONDecodeError == [ok |-> FALSE, v |-> Null, pos |-> 0]

LiteralAt(text, pos, word) ==
    /\ pos + Len(word) - 1 <= Len(text)
    /\ SubSeq(text, pos, pos + Len(word) - 1) = word

\* the index of the quote that closes the string whose content starts at pos, 0 if
\* there is none: the first quote with an even number of backslashes before it
ClosingQuote(text, pos) ==
    LET Closes(j) ==
            /\ text[j] = "\""
            /\ Cardinality({k \in pos..(j - 1) : \A m \in k..(j - 1) : text[m] = "\\"}) % 2 = 0
    IN  IF \E j \in pos..Len(text) : Closes(j)
        THEN CHOOSE j \in pos..Len(text) : Closes(j) /\ \A k \in pos..(j - 1) : ~Closes(k)
        ELSE 0

\* the character an escape letter stands for (\b and \uXXXX are not decoded here:
\* json.dumps writes them for control and non-ASCII characters only)
UnescapeChar(c) ==
    CASE c = "n" -> "\n"
      [] c = "r" -> "\r"
      [] c = "t" -> "\t"
      [] c = "f" -> "\f"
      [] OTHER -> c

RECURSIVE EscapesValid(_)
EscapesValid(raw) ==
    IF raw = <<>> THEN TRUE
    ELSE IF Head(raw) \in {"\n", "\r", "\t", "\f"} THEN FALSE
    ELSE IF Head(raw) # "\\" THEN EscapesValid(Tail(raw))
    ELSE /\ Len(raw) >= 2
         /\ raw[2] \in {"\"", "\\", "/", "n", "r", "t", "f"}
         /\ EscapesValid(SubSeq(raw, 3, Len(raw)))

RECURSIVE Unescape(_)

Unescape(raw) ==
    IF raw = <<>> THEN <<>>
    ELSE IF Head(raw) # "\\" THEN <<Head(raw)>> \o Unescape(Tail(raw))
    ELSE <<UnescapeChar(raw[2])>> \o Unescape(SubSeq(raw, 3, Len(raw)))

\* text[pos] is the opening quote
ParseString(text, pos) ==
    LET end == ClosingQuote(text, pos + 1)
        raw == SubSeq(text, pos + 1, end - 1)
    IN  IF end = 0 \/ ~EscapesValid(raw) THEN JSONDecodeError
        ELSE Parsed(Str(Unescape(raw)), end + 1)

IsDigit(c) == \E n \in 1..10 : DigitChar[n] = c

RECURSIVE DigitsValue(_)
DigitsValue(digits) ==
    LET last == CHOOSE n \in 0..9 : DigitChar[n + 1] = digits[Len(digits)]
    IN  IF Len(digits) = 1 THEN last
        ELSE DigitsValue(SubSeq(digits, 1, Len(digits) - 1)) * 10 + last

\* an integer literal; a fraction or an exponent after it is left to the caller,
\* which finds it where it expects a comma or a bracket
ParseNumber(text, pos) ==
    LET start == IF text[pos] = "-" THEN pos + 1 ELSE pos
        end == IF \E j \in start..Len(text) : ~IsDigit(text[j])
               THEN CHOOSE j \in start..Len(text) :
                        ~IsDigit(text[j]) /\ \A k \in start..(j - 1) : IsDigit(text[k])
               ELSE Len(text) + 1
        digits == SubSeq(text, start, end - 1)
    IN  IF end = start \/ (Len(digits) > 1 /\ digits[1] = "0") THEN JSONDecodeError
        ELSE Parsed(Number(IF start = pos THEN DigitsValue(digits) ELSE 0 - DigitsValue(digits)),
                    end)

RECURSIVE ParseValue(_, _)
RECURSIVE ParseMembers(_, _, _)
RECURSIVE ParseElements(_, _, _)

\* the members of an object from a key at pos on; a repeated key keeps its place
\* and takes the later value
ParseMembers(text, pos, acc) ==
    IF pos > Len(text) \/ text[pos] # "\"" THEN JSONDecodeError
    ELSE LET key == ParseString(text, pos)
             colon == SkipWs(text, key.pos)
             val == ParseValue(text, colon + 1)
             next == SkipWs(text, val.pos)
             items == SetItem(Dict(acc), key.v.v, val.v).v
         IN  IF ~key.ok \/ colon > Len(text) \/ text[colon] # ":" THEN JSONDecodeError
             ELSE IF ~val.ok \/ next > Len(text) THEN JSONDecodeError
             ELSE IF text[next] = "}" THEN Parsed(Dict(items), next + 1)
             ELSE IF text[next] = "," THEN ParseMembers(text, SkipWs(text, next + 1), items)
             ELSE JSONDecodeError

ParseElements(text, pos, acc) ==
    LET val == ParseValue(text, pos)
        next == SkipWs(text, val.pos)
    IN  IF ~val.ok \/ next > Len(text) THEN JSONDecodeError
        ELSE IF text[next] = "]" THEN Parsed(List(Append(acc, val.v)), next + 1)
        ELSE IF text[next] = "," THEN ParseElements(text, next + 1, Append(acc, val.v))
        ELSE JSONDecodeError

ParseValue(text, from) ==
    LET pos == SkipWs(text, from)
        inner == SkipWs(text, pos + 1)
    IN  IF pos > Len(text) THEN JSONDecodeError
        ELSE CASE text[pos] = "{" ->
                    IF inner <= Len(text) /\ text[inner] = "}"
                    THEN Parsed(Dict(<<>>), inner + 1)
                    ELSE ParseMembers(text, inner, <<>>)
               [] text[pos] = "[" ->
                    IF inner <= Len(text) /\ text[inner] = "]"
                    THEN Parsed(List(<<>>), inner + 1)
                    ELSE ParseElements(text, inner, <<>>)
               [] text[pos] = "\"" -> ParseString(text, pos)
               [] text[pos] = "-" \/ IsDigit(text[pos]) -> ParseNumber(text, pos)
               [] LiteralAt(text, pos, <<"t", "r", "u", "e">>) -> Parsed(Bool(TRUE), pos + 4)
               [] LiteralAt(text, pos, <<"f", "a", "l", "s", "e">>) ->
                    Parsed(Bool(FALSE), pos + 5)
               [] LiteralAt(text, pos, <<"n", "u", "l", "l">>) -> Parsed(Null, pos + 4)
               [] OTHER -> JSONDecodeError

\* json.loads(text): one value, nothing but whitespace after it
Loads(text) ==
    LET r == ParseValue(text, 1)
    IN  IF r.ok /\ SkipWs(text, r.pos) > Len(text) THEN r ELSE JSONDecodeError

Urls == {DefaultUrl, <<"h", "\"", "\\", "\n", "/">>}
Qualities == {50, 0 - 7}
RouterRuleLists == {<<>>, DEFAULT_ROUTER_RULES}
DefaultModels == {None, Optional(<<"m">>)}
ReadAllowlists == {<<>>, <<A_a>>, <<A_a, <<"/", "b", " ", "\t">>>>}

\* the valid configurations posted
AppConfigs ==
    { AppConfig(u, RoutingConfig(q, r, m), Permissions(te, al)) :
        u \in Urls, q \in Qualities, r \in RouterRuleLists, m \in DefaultModels,
        te \in BOOLEAN, al \in ReadAllowlists }

\* a body AppConfig.model_validate rejects
InvalidPayload == Dict(<<Item(K_permissions, Str(<<"o", "n">>))>>)

ConfigPayloads == { model_dump(c) : c \in AppConfigs } \cup {InvalidPayload}

\* ConfigStore.save: config.json after the configuration was dumped to config.tmp
\* and config.tmp was moved over it (the text is ASCII, its bytes are its characters)
save(c) == [exists |-> TRUE, data |-> DumpsIndent(model_dump(c), 0)]

\* a load that reads no file and answers with the defaults
load_defaults(file) ==
    [raised |-> FALSE, config |-> DefaultAppConfig, file |-> file]

\* ConfigStore.load: what it returns or that it raised, and config.json afterwards
load(file) ==
    IF ~file.exists
    THEN LET c == [DefaultAppConfig EXCEPT !.routing.rules = DEFAULT_ROUTER_RULES]
         IN  [raised |-> FALSE, config |-> c, file |-> save(c)]
    ELSE LET raw == Loads(file.data)
             v == model_validate(raw.v)
         IN  IF raw.ok /\ v.ok THEN [raised |-> FALSE, config |-> v.config, file |-> file]
             ELSE [raised |-> TRUE, config |-> DefaultAppConfig, file |-> file]

Exchange(op, request, status, body) ==
    [op |-> op, request |-> request, status |-> status, body |-> body]

\* GET /config
get_config ==
    /\ LET r == load(config_store.file)
       IN  config_store' =
               [config_store EXCEPT
                   !.file = r.file,
                   !.reply = IF r.raised THEN Exchange("GET", Null, 500, Null)
                             ELSE Exchange("GET", Null, 200, model_dump(r.config))]
    /\ UNCHANGED <<config, approvals, clock, decision, ledger_calls, loop, writers, scheduler, http,
                   symlinks, skillVars, auditVars, managerVars>>

\* POST /config with its body and its answer: validate, save, replace app.state.config and the PolicyEngine
\* built from its permissions, answer with the dump
post_config ==
    \E body \in ConfigPayloads :
        LET v == model_validate(body)
        IN  /\ IF v.ok
               THEN /\ config_store' =
                           [file |-> save(v.config), state |-> v.config, posted |-> body,
                            reply |-> Exchange("POST", body, 200, model_dump(v.config))]
                    /\ config' = [config EXCEPT
                                     !.tools_enabled = v.config.permissions.tools_enabled,
                                     !.file_read_allowlist =
                                         v.config.permissions.file_read_allowlist]
               ELSE /\ config_store' =
                           [config_store EXCEPT !.reply = Exchange("POST", body, 422, Null)]
                    /\ UNCHANGED config
            /\ UNCHANGED <<approvals, clock, decision, ledger_calls, loop, writers, scheduler, http,
                           symlinks, skillVars, auditVars, managerVars>>

InitConfig ==
    /\ config = PermissionConfig(FALSE, FALSE, FALSE)
    /\ approvals = <<>>
    /\ clock = 0
    /\ symlinks = DirB
    /\ decision = NoDecision
    /\ files = InitialFiles
    /\ audit_log = <<>>
    /\ spawned = <<>>
    /\ call = IdleCall
    /\ AuditAtRest
    /\ ManagerAtRest

NextConfig ==
    \/ get_config
    \/ post_config

SpecConfig == InitConfig /\ [][NextConfig]_vars

----------------------------------------------------------------------------
(* Policy decisions: their shape, and the require_approval flag *)

\* the evaluation recorded in d, made again with configuration cfg
Evaluate(d, cfg) ==
    CASE d.op = "check_file_read" ->
            check_file_read(cfg, approvals, clock, symlinks, d.target)
      [] d.op = "check_file_write" ->
            check_file_write(cfg, approvals, clock, symlinks, d.target)
      [] d.op = "check_terminal" -> check_terminal(cfg, approvals, clock, d.target)
      [] OTHER -> check_skill(cfg, approvals, clock, d.target)

\* C33: a returned decision has requires_approval = not allowed and the scope
\* '<kind>:<target as requested>', and the evaluation comes out the same with
\* require_approval true and with require_approval false in the configuration.
C33_DecisionShape ==
    decision.op # "none" =>
        /\ ~decision.res.raised =>
              /\ decision.res.requires_approval = ~decision.res.allowed
              /\ decision.res.scope = ScopeOf(decision)
        /\ \A flag \in BOOLEAN :
              Evaluate(decision, [config EXCEPT !.require_approval = flag]) = decision.res

\* with tools enabled and grants in the ledger, a read of /a/../b/x was denied at
\* the ledger stage; its scope carries the path as it was asked for
C33_Witness ==
    /\ decision.op = "check_file_read"
    /\ decision.target = P_a_up_b_x
    /\ config.tools_enabled
    /\ ~decision.res.raised /\ ~decision.res.allowed
    /\ decision.res.scope = <<"file_read", ":">> \o P_a_up_b_x
    /\ approvals # <<>>

----------------------------------------------------------------------------
(* Terminal decisions and the argument vector *)

RECURSIVE SpaceJoined(_)
\* the words of an argument vector with one space between neighbours
SpaceJoined(argv) ==
    IF Len(argv) = 0 THEN <<>>
    ELSE IF Len(argv) = 1 THEN argv[1]
    ELSE SpaceJoined(SubSeq(argv, 1, Len(argv) - 1)) \o <<" ">> \o argv[Len(argv)]

\* what run_command decides for an argument vector in the current state
TerminalDecision(argv) == check_terminal(config, approvals, clock, JoinStr(argv, <<" ">>))

\* C37: the decision a run_command call got, and the audit event it logged, are
\* the ones every argument vector with the same space-joined string gets; the
\* child process is started with the vector as it was given.
C37_DecisionByJoinedString ==
    call.op = "run_command" =>
        /\ \A other \in Argvs :
              SpaceJoined(other) = SpaceJoined(call.argv) =>
                  /\ TerminalDecision(other) = call.dec
                  /\ Len(audit_log) > call.audit0 =>
                        audit_log[Len(audit_log)] =
                            AuditEvent("terminal", SpaceJoined(other), "Ran command")
        /\ Len(spawned) > call.spawned0 => spawned[Len(spawned)] = call.argv

\* ["g", "s"] was allowed on the grant for "g s", ran and was logged; ["g s"]
\* joins to the same string
C37_Witness ==
    /\ call.op = "run_command"
    /\ call.argv = Argv_g_s
    /\ SpaceJoined(Argv_gs) = SpaceJoined(Argv_g_s)
    /\ call.dec.allowed
    /\ Len(audit_log) > call.audit0
    /\ spawned[Len(spawned)] = Argv_g_s

----------------------------------------------------------------------------
(* File calls of the skill context while another process re-points the link *)

NextRace ==
    \/ read_file_check
    \/ read_file_read
    \/ read_file_audit
    \/ read_file_return
    \/ write_file_check
    \/ write_file_mkdir
    \/ write_file_exists
    \/ write_file_bak_open
    \/ write_file_bak_write
    \/ write_file_tmp_open
    \/ write_file_tmp_write
    \/ write_file_replace
    \/ write_file_audit
    \/ write_file_return
    \/ Relink

SpecRace == InitSkill /\ [][NextRace]_vars

\* the path a scope string names
ScopeTarget(scope) == SubSeq(scope, 3, Len(scope))

\* the file the call's path leads to now lies inside an entry of the allowlist,
\* or an unexpired grant of this kind names a path that leads to it
CoveredNow(kind, allowlist) ==
    \/ InAllowlist(TargetFile, allowlist, symlinks)
    \/ \E k \in 1..Len(approvals) :
          /\ approvals[k].scope[1] = kind
          /\ Resolve(ScopeTarget(approvals[k].scope), symlinks) = TargetFile
          /\ Unexpired(approvals[k])

\* C35: the file read_file reads, and the file write_file replaces, lies inside
\* an allowlist entry or under an unexpired grant at the moment of the access,
\* also when the link on the path was re-pointed after the policy check.
C35_NoCheckToUseRace ==
    [][ /\ (At("read_file", "read") /\ call'.pc = "audit") =>
              CoveredNow("file_read", config.file_read_allowlist)
        /\ (At("write_file", "replace") /\ call'.pc = "audit") =>
              CoveredNow("file_write", config.file_write_allowlist) ]_vars

----------------------------------------------------------------------------
(* Two write_file calls on one path, their steps interleaved *)

\* the octet a gap in a file reads as
Nul == "0x00"

WriterContents == {V_new, V_alt}

WTargetFile(w) == FileAt(PurePath(writers[w].path), symlinks)
WBackupFile(w) == FileAt(BackupPath(PurePath(writers[w].path)), symlinks)
WTempFile(w) == FileAt(TempPath(PurePath(writers[w].path)), symlinks)

WAt(w, pc) == writers[w].pc = pc

WriterSteps(w, rec) == writers' = [writers EXCEPT ![w] = rec]

WriterFrame == UNCHANGED <<config, approvals, clock, decision, ledger_calls, loop, config_store, scheduler, http,
                          symlinks, audit_log, spawned, call, auditVars, managerVars>>

\* write(2) of one octet at an offset of its own: over what is there, at the
\* end, or past the end with the gap reading as zero octets
WriteAt(data, off, octet) ==
    IF off < Len(data) THEN [data EXCEPT ![off + 1] = octet]
    ELSE data \o [k \in 1..(off - Len(data)) |-> Nul] \o <<octet>>

\* write_file enters: the policy check, and the early return on a denial; the
\* second call is on the path of the first
writer_check(w) ==
    /\ WAt(w, "idle")
    /\ \E path \in CtxPaths, content \in WriterContents :
          /\ \A o \in Writers : ~WAt(o, "idle") => writers[o].path = path
          /\ LET dec == check_file_write(config, approvals, clock, symlinks, path)
                 rec == [IdleWriter EXCEPT !.path = path, !.content = content, !.dec = dec]
             IN  WriterSteps(w, IF dec.raised THEN [rec EXCEPT !.pc = "raised", !.exc = dec.reason]
                                ELSE IF ~dec.allowed
                                THEN [rec EXCEPT !.pc = "returned", !.result = DeniedResult(dec)]
                                ELSE [rec EXCEPT !.pc = "mkdir"])
    /\ UNCHANGED files
    /\ WriterFrame

\* target.parent.mkdir(parents=True, exist_ok=True)
writer_mkdir(w) ==
    /\ WAt(w, "mkdir")
    /\ WriterSteps(w, [writers[w] EXCEPT !.pc = "exists"])
    /\ UNCHANGED files
    /\ WriterFrame

\* if target.exists(): ... target.read_text(...)
writer_exists(w) ==
    /\ WAt(w, "exists")
    /\ WriterSteps(w, IF files[WTargetFile(w)].exists
                      THEN [writers[w] EXCEPT !.data = ReadText(files[WTargetFile(w)].data),
                                              !.pc = "bak_open"]
                      ELSE [writers[w] EXCEPT !.pc = "tmp_open"])
    /\ UNCHANGED files
    /\ WriterFrame

\* write_text opens for writing: the file is created or truncated, the
\* descriptor starts at offset 0
WriterOpens(w, f, text, writing, after) ==
    /\ files' = [files EXCEPT ![f] = File(<<>>)]
    /\ WriterSteps(w, [writers[w] EXCEPT !.fd = f, !.off = 0,
                                         !.pc = IF Len(text) = 0 THEN after ELSE writing])

\* write_text hands the text to its descriptor, block by block, then closes it
WriterWrites(w, text, after) ==
    LET me == writers[w]
    IN  /\ files' = [files EXCEPT ![me.fd] = File(WriteAt(@.data, me.off, text[me.off + 1]))]
        /\ WriterSteps(w, [me EXCEPT !.off = @ + 1,
                                     !.pc = IF me.off + 1 = Len(text) THEN after ELSE @])

\* backup_path.write_text(<the target's text>)
writer_bak_open(w) ==
    /\ WAt(w, "bak_open")
    /\ WriterOpens(w, WBackupFile(w), writers[w].data, "bak_write", "tmp_open")
    /\ WriterFrame

writer_bak_write(w) ==
    /\ WAt(w, "bak_write")
    /\ WriterWrites(w, writers[w].data, "tmp_open")
    /\ WriterFrame

\* temp_path.write_text(content)
writer_tmp_open(w) ==
    /\ WAt(w, "tmp_open")
    /\ WriterOpens(w, WTempFile(w), writers[w].content, "tmp_write", "replace")
    /\ WriterFrame

writer_tmp_write(w) ==
    /\ WAt(w, "tmp_write")
    /\ WriterWrites(w, writers[w].content, "replace")
    /\ WriterFrame

\* temp_path.replace(target): one rename, FileNotFoundError when the temporary
\* name is gone; a descriptor the other call holds on the renamed file stays
\* on it under its new name
writer_replace(w) ==
    /\ WAt(w, "replace")
    /\ IF ~files[WTempFile(w)].exists
       THEN /\ WriterSteps(w, [writers[w] EXCEPT !.pc = "raised", !.exc = "FileNotFoundError"])
            /\ UNCHANGED files
       ELSE /\ files' = [files EXCEPT ![WTargetFile(w)] = files[WTempFile(w)],
                                      ![WTempFile(w)] = Absent]
            /\ writers' = [o \in Writers |->
                             IF o = w THEN [writers[o] EXCEPT !.pc = "audit"]
                             ELSE IF WAt(o, "tmp_write") /\ writers[o].fd = WTempFile(w)
                             THEN [writers[o] EXCEPT !.fd = WTargetFile(w)]
                             ELSE writers[o]]
    /\ WriterFrame

writer_audit(w) ==
    /\ WAt(w, "audit")
    /\ audit_log' = Append(audit_log, AuditEvent("file_write", writers[w].path, "Wrote file"))
    /\ WriterSteps(w, [writers[w] EXCEPT !.pc = "return"])
    /\ UNCHANGED <<config, approvals, clock, decision, ledger_calls, loop, config_store, scheduler, http,
                   symlinks, files, spawned, call, auditVars, managerVars>>

writer_return(w) ==
    /\ WAt(w, "return")
    /\ WriterSteps(w, [writers[w] EXCEPT !.pc = "returned",
                                         !.result = ToolResult(TRUE, Some(<<"File written">>), None, <<>>)])
    /\ UNCHANGED files
    /\ WriterFrame

NextWriters ==
    \E w \in Writers :
        \/ writer_check(w)
        \/ writer_mkdir(w)
        \/ writer_exists(w)
        \/ writer_bak_open(w)
        \/ writer_bak_write(w)
        \/ writer_tmp_open(w)
        \/ writer_tmp_write(w)
        \/ writer_replace(w)
        \/ writer_audit(w)
        \/ writer_return(w)

SpecWriters == InitSkill /\ [][NextWriters]_vars

\* the call was let through by the policy and has come back or raised
WriterDone(w) == writers[w].pc \in {"returned", "raised"} /\ ~writers[w].dec.raised /\ writers[w].dec.allowed

\* C36: once two allowed write_file calls on one path are over, however their
\* steps interleaved, both have returned success, the target holds the whole
\* content of one of them, and no ".tmp" file is left.
C36_ConcurrentWrites ==
    (\A w \in Writers : WriterDone(w)) =>
        /\ \A w \in Writers : WAt(w, "returned") /\ writers[w].result.success
        /\ \E w \in Writers : files[WTargetFile(w)] = File(writers[w].content)
        /\ \A w \in Writers : ~files[WTempFile(w)].exists

----------------------------------------------------------------------------
(* run_scheduler: the dream and reflection ticks over scheduler_state.json *)

MaxDays == 2        \* UTC dates the wall clock runs through
MaxAttempts == 3    \* dreamer.run and reflector.run calls made

\* hours of a day the wall clock is seen at: before daily_hour, at it, after it
Hours == {1, 2, 23}

\* day 1 is Sunday 2026-01-04, day 2 Monday 2026-01-05
Weekday(date) == (date + 5) % 7
IsoWeek(date) == (date + 12) \div 7

SchedulerFrame ==
    UNCHANGED <<config, approvals, clock, decision, ledger_calls, loop, config_store,
                writers, http, symlinks, skillVars, auditVars, managerVars>>

\* the wall clock moves on, within the day or into the next one
time_passes ==
    /\ scheduler.pc # "dead"
    /\ \E hour \in Hours :
          \/ /\ hour > scheduler.now.hour
             /\ scheduler' = [scheduler EXCEPT !.now.hour = hour]
          \/ /\ scheduler.now.date < MaxDays
             /\ scheduler' = [scheduler EXCEPT !.now = [date |-> scheduler.now.date + 1, hour |-> hour]]
    /\ SchedulerFrame

\* what SchedulerState.save leaves in the file: write_text opens the file, which
\* empties it, then writes the text; either step can fail with OSError
SaveOutcomes == {"saved", "open failed", "write failed"}

save_state(file, state, how) ==
    IF how = "saved" THEN [exists |-> TRUE, whole |-> TRUE, data |-> state]
    ELSE IF how = "write failed" THEN [exists |-> TRUE, whole |-> FALSE, data |-> NoSchedulerState]
    ELSE file

DreamDue(s) ==
    /\ s.cfg.dreams_enabled
    /\ s.tick.hour >= s.cfg.daily_hour
    /\ s.state.last_dream_date # s.tick.date

ReflectionDue(s) ==
    /\ s.cfg.reflections_enabled
    /\ Weekday(s.tick.date) = s.cfg.weekly_day
    /\ s.state.last_reflection_week # IsoWeek(s.tick.date)

\* the sleep is over: the loop body loads the state and reads the clock; with a
\* dream due it awaits dreamer.run. json.loads raises on a file that does not
\* hold a whole document, and nothing in run_scheduler catches that
tick_start ==
    /\ scheduler.pc = "sleeping"
    /\ Len(scheduler.runs) < MaxAttempts
    /\ IF scheduler.file.exists /\ ~scheduler.file.whole
       THEN scheduler' = [scheduler EXCEPT !.pc = "dead", !.exc = "JSONDecodeError"]
       ELSE LET s == [scheduler EXCEPT
                        !.state = IF scheduler.file.exists THEN scheduler.file.data
                                  ELSE NoSchedulerState,
                        !.tick = scheduler.now]
            IN  scheduler' = [s EXCEPT !.pc = IF DreamDue(s) THEN "dreaming" ELSE "dreamt"]
    /\ SchedulerFrame

\* dreamer.run comes back or raises; after a return the date is put in the
\* state and the state is saved, and whatever the try block raises is dropped
dreamer_returns ==
    /\ scheduler.pc = "dreaming"
    /\ \/ scheduler' = [scheduler EXCEPT
                           !.runs = Append(@, [what |-> "dream", date |-> scheduler.tick.date, ok |-> FALSE]),
                           !.pc = "dreamt"]
       \/ \E how \in SaveOutcomes :
             LET state == [scheduler.state EXCEPT !.last_dream_date = scheduler.tick.date]
             IN  scheduler' = [scheduler EXCEPT
                                  !.runs = Append(@, [what |-> "dream", date |-> scheduler.tick.date, ok |-> TRUE]),
                                  !.state = state,
                                  !.file = save_state(@, state, how),
                                  !.pc = "dreamt"]
    /\ SchedulerFrame

\* the reflection half of the loop body: with a reflection due the two journals
\* are read, outside any try, and reflector.run is awaited; otherwise the loop
\* goes to sleep
reflection_check ==
    /\ scheduler.pc = "dreamt"
    /\ IF ReflectionDue(scheduler)
       THEN \/ scheduler' = [scheduler EXCEPT !.pc = "reflecting"]
            \/ scheduler' = [scheduler EXCEPT !.pc = "dead", !.exc = "JSONDecodeError"]
       ELSE scheduler' = [scheduler EXCEPT !.pc = "sleeping"]
    /\ SchedulerFrame

reflector_returns ==
    /\ scheduler.pc = "reflecting"
    /\ \/ scheduler' = [scheduler EXCEPT
                           !.runs = Append(@, [what |-> "reflection", date |-> scheduler.tick.date, ok |-> FALSE]),
                           !.pc = "sleeping"]
       \/ \E how \in SaveOutcomes :
             LET state == [scheduler.state EXCEPT !.last_reflection_week = IsoWeek(scheduler.tick.date)]
             IN  scheduler' = [scheduler EXCEPT
                                  !.runs = Append(@, [what |-> "reflection", date |-> scheduler.tick.date, ok |-> TRUE]),
                                  !.state = state,
                                  !.file = save_state(@, state, how),
                                  !.pc = "sleeping"]
    /\ SchedulerFrame

InitScheduler ==
    /\ config = PermissionConfig(TRUE, TRUE, TRUE)
    /\ approvals = <<>>
    /\ clock = 0
    /\ symlinks = DirB
    /\ decision = NoDecision
    /\ files = InitialFiles
    /\ audit_log = <<>>
    /\ spawned = <<>>
    /\ call = IdleCall
    /\ AuditAtRest
    /\ ledger_calls = <<>>
    /\ skills_dir = [exists |-> FALSE, dirs |-> <<>>]
    /\ manager = [state |-> "unbuilt", exc |-> "", manifests |-> <<>>]
    /\ invocations = <<>>
    /\ factory_calls = <<>>
    /\ LoopAtRest
    /\ http = <<>>
    /\ \E dreams \in BOOLEAN, reflections \in BOOLEAN, hour \in Hours :
          scheduler = FreshScheduler(ScheduleConfig(dreams, reflections), hour)

NextScheduler ==
    \/ time_passes
    \/ tick_start
    \/ dreamer_returns
    \/ reflection_check
    \/ reflector_returns

SpecScheduler == InitScheduler /\ [][NextScheduler]_vars

DreamsOn(date) ==
    { i \in 1..Len(scheduler.runs) :
        /\ scheduler.runs[i].what = "dream"
        /\ scheduler.runs[i].date = date
        /\ scheduler.runs[i].ok }

\* C38: on no UTC date does the scheduler run the dreamer to success more than
\* once, and scheduler_state.json names a date as last_dream_date only when a
\* dreamer run of that date succeeded.
C38_DreamOncePerDate ==
    /\ \A date \in 1..MaxDays : Cardinality(DreamsOn(date)) <= 1
    /\ (scheduler.file.exists /\ scheduler.file.whole /\ scheduler.file.data.last_dream_date # 0) =>
          DreamsOn(scheduler.file.data.last_dream_date) # {}

----------------------------------------------------------------------------
(* The bundled skills and the context methods they call *)

K_fx == <<"f", "x">>                 \* file_explorer (K_dev is dev_assistant)
K_ki == <<"k", "i">>                 \* knowledge_ingest
K_path == <<"p", "a", "t", "h">>
K_paths == <<"p", "a", "t", "h", "s">>
K_success == <<"s", "u", "c", "c", "e", "s", "s">>
K_error == <<"e", "r", "r", "o", "r">>
K_output == <<"o", "u", "t", "p", "u", "t">>
K_metadata == <<"m", "e", "t", "a", "d", "a", "t", "a">>
K_approval == <<"a", "p", "p", "r", "o", "v", "a", "l">>
T_git_status == <<"g", "_", "s">>    \* "git_status"
T_pytest == <<"p", "t">>             \* "pytest"
T_ruff == <<"r", "f">>               \* "ruff"
T_list == <<"l", "i", "s", "t">>
T_read == <<"r", "e", "a", "d">>
T_bogus == <<"b", "o", "g", "u", "s">>
E_unsupported == <<"Unsupported action">>
E_paths_required == <<"Paths required">>
P_dot == <<".">>
P_a == <<"/", "a">>
P_b == <<"/", "b">>

\* COMMANDS.get(action): None for an action the table does not hold
COMMANDS(action) ==
    IF action = T_git_status THEN Argv_g_s                     \* ["git", "status", "-sb"]
    ELSE IF action = T_pytest THEN << T_pytest >>              \* ["pytest"]
    ELSE IF action = T_ruff THEN << T_ruff, <<"c">>, <<".">> >>   \* ["ruff", "check", "."]
    ELSE <<>>

\* what running a handler did besides handing back its outcome: the argument
\* vectors it spawned, the audit events its context logged, the policy checks
\* its context made
Effect(outcome, argvs, events, checks) ==
    [outcome |-> outcome, argvs |-> argvs, events |-> events, checks |-> checks]

\* str(path) of an absolute path given by its components
PathString(parts) ==
    IF parts = <<>> THEN <<"/">>
    ELSE Concat([i \in 1..Len(parts) |-> <<"/">> \o parts[i]])

\* the file is there to be opened
IsFile(f) == f \in DOMAIN files /\ files[f].exists

\* the directories of the tree: the parents of every file name
IsDir(f) == \E g \in DOMAIN files : Len(g) > Len(f) /\ SubSeq(g, 1, Len(f)) = f

\* decision.model_dump()
DecisionDump(dec) ==
    Dict(<< Item(<<"allowed">>, Bool(dec.allowed)), Item(<<"reason">>, Str(<<dec.reason>>)),
            Item(<<"scope">>, Str(dec.scope)),
            Item(<<"requires_approval">>, Bool(dec.requires_approval)) >>)

\* SkillContext.run_command of a context built on permissions, as one call:
\* child is what the process does once started, launched whether it starts
ctx_run_command(permissions, command, child, launched) ==
    LET joined == JoinStr(command, <<" ">>)
        dec == check_terminal(permissions, approvals, clock, joined)
    IN  IF dec.raised THEN Effect(Raises(<<dec.reason>>), <<>>, <<>>, <<dec>>)
        ELSE IF ~dec.allowed THEN Effect(Returns(DeniedResult(dec)), <<>>, <<>>, <<dec>>)
        ELSE IF ~launched
        THEN Effect(Returns(ToolResult(FALSE, None, Some(<<"OSError">>), <<>>)), <<>>, <<>>, <<dec>>)
        ELSE IF ~(Decodable(child.stdout) /\ Decodable(child.stderr))
        THEN Effect(Raises(<<"UnicodeDecodeError">>), <<command>>, <<>>, <<dec>>)
        ELSE Effect(Returns(ToolResult(child.rc = 0,
                                       Some(ReadText(child.stdout) \o ReadText(child.stderr)),
                                       None, <<>>)),
                    <<command>>, <<AuditEvent("terminal", joined, "Ran command")>>, <<dec>>)

\* SkillContext.read_file as one call
ctx_read_file(permissions, path) ==
    LET dec == check_file_read(permissions, approvals, clock, symlinks, path)
        f == Resolve(path, symlinks)
    IN  IF dec.raised THEN Effect(Raises(<<dec.reason>>), <<>>, <<>>, <<dec>>)
        ELSE IF ~dec.allowed THEN Effect(Returns(DeniedResult(dec)), <<>>, <<>>, <<dec>>)
        ELSE IF ~IsFile(f)
        THEN Effect(Raises(<<IF IsDir(f) THEN "IsADirectoryError" ELSE "FileNotFoundError">>),
                    <<>>, <<>>, <<dec>>)
        ELSE Effect(Returns(ToolResult(TRUE, Some(ReadText(files[f].data)), None, <<>>)),
                    <<>>, <<AuditEvent("file_read", path, "Read file")>>, <<dec>>)

\* skills/dev_assistant/skill.py: run(context, payload)
dev_assistant_run(permissions, input, child, launched) ==
    LET action == Get(input, K_action, Str(T_git_status))
        command == IF action.t = "str" THEN COMMANDS(action.v) ELSE <<>>
    IN  IF command = <<>>
        THEN Effect(ReturnsValue(Dict(<< Item(K_success, Bool(FALSE)),
                                         Item(K_error, Str(E_unsupported)) >>)),
                    <<>>, <<>>, <<>>)
        ELSE ctx_run_command(permissions, command, child, launched)

\* the names under a directory: files that exist, directories, the link
Entries(dir) ==
    { f \in { SubSeq(g, 1, Len(dir) + 1) : g \in { h \in DOMAIN files \cup {LinkAt} :
                                                      Len(h) > Len(dir) /\ SubSeq(h, 1, Len(dir)) = dir } } :
        IsFile(f) \/ IsDir(f) \/ f = LinkAt }

\* {"name": entry.name, "path": str(entry), "is_dir": entry.is_dir()}
EntryDump(f) ==
    Dict(<< Item(<<"name">>, Str(f[Len(f)])), Item(K_path, Str(PathString(f))),
            Item(<<"is_dir">>, Bool(IF f = LinkAt THEN IsDir(symlinks) ELSE IsDir(f))) >>)

\* the orders in which iterdir can hand out the entries
Orders(S) == { q \in [1..Cardinality(S) -> S] : \A i, j \in 1..Cardinality(S) : i # j => q[i] # q[j] }

\* the directory a input asks file_explorer to list
ListedDir(input) == Resolve(Get(input, K_path, Str(P_dot)).v, symlinks)

\* skills/file_explorer/skill.py: run(context, payload); order is the order in
\* which iterdir hands out the entries of the directory
file_explorer_run(permissions, input, order) ==
    LET action == Get(input, K_action, Str(T_list))
        path == Get(input, K_path, Str(P_dot)).v
        unsupported == Effect(ReturnsValue(Dict(<< Item(K_success, Bool(FALSE)),
                                                   Item(K_error, Str(E_unsupported)) >>)),
                              <<>>, <<>>, <<>>)
    IN  IF action = Str(T_read) THEN ctx_read_file(permissions, path)
        ELSE IF action = Str(T_list)
        THEN LET resolved == Resolve(path, symlinks)
                 dec == check_file_read(permissions, approvals, clock, symlinks, PathString(resolved))
             IN  IF dec.raised THEN Effect(Raises(<<dec.reason>>), <<>>, <<>>, <<dec>>)
                 ELSE IF ~dec.allowed
                 THEN Effect(ReturnsValue(Dict(<< Item(K_success, Bool(FALSE)),
                                                  Item(K_error, Str(<<dec.reason>>)),
                                                  Item(K_metadata,
                                                       Dict(<<Item(K_approval, DecisionDump(dec))>>)) >>)),
                             <<>>, <<>>, <<dec>>)
                 ELSE IF ~IsDir(resolved)
                 THEN Effect(Raises(<<IF IsFile(resolved) THEN "NotADirectoryError"
                                      ELSE "FileNotFoundError">>), <<>>, <<>>, <<dec>>)
                 ELSE Effect(ReturnsValue(Dict(<< Item(K_success, Bool(TRUE)),
                                                  Item(K_output,
                                                       List([i \in 1..Len(order) |-> EntryDump(order[i])])) >>)),
                             <<>>, <<>>, <<dec>>)
        ELSE unsupported

\* skills/knowledge_ingest/skill.py: run(context, payload) up to its await and,
\* in ingested, what the awaited context.rag_ingest comes to
knowledge_ingest_run(input, ingested) ==
    LET paths == Get(input, K_paths, List(<<>>))
    IN  IF paths.v = <<>>
        THEN Effect(ReturnsValue(Dict(<< Item(K_success, Bool(FALSE)),
                                         Item(K_error, Str(E_paths_required)) >>)),
                    <<>>, <<>>, <<>>)
        ELSE IF ~ingested THEN Effect(Raises(<<"IngestError">>), <<>>, <<>>, <<>>)
        ELSE Effect(Returns(ToolResult(TRUE, None, None,
                                       <<[indexed |-> paths.v, skipped |-> <<>>]>>)),
                    <<>>, <<AuditEvent("rag_ingest", paths.v, "")>>, <<>>)

----------------------------------------------------------------------------
(* The HTTP endpoints that gate tools: POST /skills/run and POST /rag/ingest *)

MaxAwaiting == 1   \* exchanges suspended at an await at one time

\* one shipped skill directory; what its run does is filled in at each call
BundledDir(name, is_async) ==
    SkillDir(name, TRUE, ManifestText(TRUE, TRUE, name, FALSE, <<>>), F_skill_py,
             SkillCode("ok", is_async, NoOutcome, NoOutcome, NoOutcome))

\* the skills directory as shipped
BundledTree ==
    [exists |-> TRUE,
     dirs |-> << BundledDir(K_dev, FALSE), BundledDir(K_fx, FALSE), BundledDir(K_ki, TRUE) >>]

\* the tree with what executing the named skill's run on the arguments in hand,
\* against the context in hand, comes to
Running(tree, skill_name, outcome) ==
    [tree EXCEPT !.dirs =
        [i \in 1..Len(tree.dirs) |->
            IF tree.dirs[i].dir = skill_name
            THEN [tree.dirs[i] EXCEPT !.code.on_ok = outcome, !.code.on_boom = outcome,
                                      !.code.on_odd = outcome]
            ELSE tree.dirs[i]]]

\* a load that hands out the permissions with the tools switched on
load_permissions_tools_on(stored) == [stored EXCEPT !.tools_enabled = TRUE]

\* config_store.load().permissions: config.json is read at every call
load_permissions(stored) == stored

\* a gate that lets every decision through
Refused_never(dec) == FALSE

\* if not decision.allowed: raise HTTPException(status_code=403, ...)
Refused(dec) == ~dec.allowed

NoContext ==
    [policy |-> 0, audit |-> 0, context |-> 0,
     permissions |-> PermissionConfig(FALSE, FALSE, FALSE), by |-> 0]
NoInvocation ==
    Invocation(<<>>, Dict(<<>>), "none", NoResult, <<>>, 0, FALSE, FALSE, NoOutcome, <<>>)
NoCheck == ApprovalDecision(FALSE, "not checked", <<>>, FALSE)

\* one exchange: the request, the permissions stored when it came in and those
\* its handler loaded, the checks made, the invocation with its context and
\* what the skill's run handed back, what was logged and spawned on its
\* behalf, and the answer
HttpExchange(route, name, args, paths) ==
    [route |-> route, name |-> name, args |-> args, paths |-> paths, rag_enabled |-> TRUE,
     stored |-> config, cfg |-> load_permissions(config), at |-> clock,
     check |-> NoCheck, checks |-> <<>>, inv |-> NoInvocation, context |-> NoContext,
     outcome |-> NoOutcome, events |-> <<>>, argvs |-> <<>>, late |-> <<>>,
     status |-> 0, pc |-> "done"]

Awaiting(seq) == SelectSeq(seq, LAMBDA x : x.pc = "awaiting")

\* exchange i has just been answered: it is kept with those still awaiting
Answered(seq, i) == SelectSeq(seq, LAMBDA x : x.pc = "awaiting" \/ x = seq[i])

\* the contexts of the invocations still running
LiveContexts == [i \in 1..Len(Awaiting(http)) |-> Awaiting(http)[i].context]

ServerFrame ==
    UNCHANGED <<config, approvals, clock, decision, ledger_calls, loop, config_store,
                writers, scheduler, symlinks, skillVars, auditVars, managerVars>>

\* what the run of the named skill does on a input against a context built
\* on permissions
SkillEffect(skill_name, permissions, input, child, launched, order, ingested) ==
    IF skill_name = K_dev THEN dev_assistant_run(permissions, input, child, launched)
    ELSE IF skill_name = K_fx THEN file_explorer_run(permissions, input, order)
    ELSE IF skill_name = K_ki THEN knowledge_ingest_run(input, ingested)
    ELSE Effect(NoOutcome, <<>>, <<>>, <<>>)

\* await app.state.skill_manager.run(skill_name, args), up to its return or its
\* first await; effect is what the skill's run does against the context that
\* context_factory builds on the permissions it loads
skill_manager_run(skill_name, args, effect) ==
    run(Running(skills_dir, skill_name, effect.outcome), manager.manifests,
        LiveContexts, load_permissions(config), Len(LiveContexts) + 1, skill_name, args)

\* the handler of POST /skills/run up to its return, its HTTPException or the
\* suspension of an async skill; r is what skill_manager.run comes to if called
run_skill(skill_name, args, effect, r) ==
    LET x == HttpExchange("skills_run", skill_name, args, <<>>)
        dec == check_skill(x.cfg, approvals, clock, skill_name)
        ran == [x EXCEPT !.check = dec, !.inv = r.inv,
                         !.context = IF r.inv.loaded THEN r.calls[Len(r.calls)] ELSE NoContext,
                         !.outcome = IF r.inv.called THEN effect.outcome ELSE NoOutcome,
                         !.checks = IF r.inv.called THEN effect.checks ELSE <<>>,
                         !.argvs = IF r.inv.called THEN effect.argvs ELSE <<>>]
        logged == AuditEvent("skill", skill_name, "")
    IN  IF skill_name = <<>> THEN [x EXCEPT !.status = 400]
        ELSE IF dec.raised THEN [x EXCEPT !.check = dec, !.status = 500]
        ELSE IF Refused(dec) THEN [x EXCEPT !.check = dec, !.status = 403]
        ELSE IF r.inv.pc = "raised" THEN [ran EXCEPT !.status = 500]
        ELSE IF r.inv.pc = "awaiting"
        THEN [ran EXCEPT !.pc = "awaiting", !.late = effect.events]
        ELSE [ran EXCEPT !.events = (IF r.inv.called THEN effect.events ELSE <<>>) \o <<logged>>,
                         !.status = 200]

SkillRequest(name, args) == [name |-> name, args |-> args]

\* what POST /skills/run is sent: no name, or a shipped skill with arguments
SkillRequests ==
    { SkillRequest(<<>>, Dict(<<>>)),
      SkillRequest(K_dev, Dict(<<>>)),
      SkillRequest(K_dev, Dict(<<Item(K_action, Str(T_bogus))>>)),
      SkillRequest(K_fx, Dict(<<>>)),
      SkillRequest(K_fx, Dict(<<Item(K_action, Str(T_list)), Item(K_path, Str(P_b))>>)),
      SkillRequest(K_fx, Dict(<<Item(K_action, Str(T_read)), Item(K_path, Str(P_a_r))>>)),
      SkillRequest(K_fx, Dict(<<Item(K_action, Str(T_bogus))>>)),
      SkillRequest(K_ki, Dict(<<>>)),
      SkillRequest(K_ki, Dict(<<Item(K_paths, List(<<Str(P_a_r)>>))>>)) }

\* POST /skills/run
skills_run_request ==
    /\ \E q \in SkillRequests :
          \E child \in IF q.name = K_dev THEN Children ELSE {NoChild},
             launched \in IF q.name = K_dev THEN BOOLEAN ELSE {TRUE},
             ingested \in IF q.name = K_ki THEN BOOLEAN ELSE {TRUE},
             order \in IF q.name = K_fx THEN Orders(Entries(ListedDir(q.args))) ELSE {<<>>} :
             \E effect \in {SkillEffect(q.name, load_permissions(config), q.args,
                                         child, launched, order, ingested)} :
                \E r \in {skill_manager_run(q.name, q.args, effect)} :
                   http' = Append(Awaiting(http), run_skill(q.name, q.args, effect, r))
    /\ Len(Awaiting(http')) <= MaxAwaiting
    /\ ServerFrame

\* an async skill's run comes back: run wraps what it handed back, the handler
\* logs the skill event and answers
skills_run_resume ==
    /\ \E i \in 1..Len(http) :
          /\ http[i].route = "skills_run"
          /\ http[i].pc = "awaiting"
          /\ http' = Answered([http EXCEPT
                        ![i].inv = [http[i].inv EXCEPT !.pc = "returned",
                                                       !.result = Wrap(http[i].inv.pending),
                                                       !.pending = NoOutcome],
                        ![i].events = http[i].late \o <<AuditEvent("skill", http[i].name, "")>>,
                        ![i].late = <<>>,
                        ![i].status = 200,
                        ![i].pc = "done"], i)
    /\ ServerFrame

\* os.path.abspath: made absolute on the working directory, ".." and "." folded,
\* links left alone
abspath(path) == PathString(FileAt(PurePath(path), LinkAt))

sanitize_paths(paths) == [i \in 1..Len(paths) |-> abspath(paths[i])]

RECURSIVE path_checks(_, _, _, _)
\* for path in paths: decision = policy.check_file_read(path); the loop is left
\* at the first decision that does not allow, or when a check raises
path_checks(cfg, paths, i, made) ==
    IF i > Len(paths) THEN made
    ELSE LET dec == check_file_read(cfg, approvals, clock, symlinks, paths[i])
         IN  IF dec.raised \/ ~dec.allowed THEN Append(made, dec)
             ELSE path_checks(cfg, paths, i + 1, Append(made, dec))

\* the handler of POST /rag/ingest up to its HTTPException or its await
rag_ingest(paths, rag_enabled) ==
    LET x == [HttpExchange("rag_ingest", <<>>, Dict(<<>>), paths) EXCEPT !.rag_enabled = rag_enabled]
        sane == sanitize_paths(paths)
        made == path_checks(x.cfg, sane, 1, <<>>)
        checked == [x EXCEPT !.checks = made]
    IN  IF ~rag_enabled THEN [x EXCEPT !.status = 403]
        ELSE IF made # <<>> /\ made[Len(made)].raised THEN [checked EXCEPT !.status = 500]
        ELSE IF made # <<>> /\ Refused(made[Len(made)]) THEN [checked EXCEPT !.status = 403]
        ELSE [checked EXCEPT !.pc = "awaiting",
                             !.late = <<AuditEvent("rag_ingest", sane, "")>>]

IngestRequest(paths, rag_enabled) == [paths |-> paths, rag_enabled |-> rag_enabled]

\* what POST /rag/ingest is sent, and whether config.rag.enabled is set
IngestRequests ==
    { IngestRequest(<<>>, TRUE), IngestRequest(<<P_a_r>>, TRUE), IngestRequest(<<P_a_r>>, FALSE),
      IngestRequest(<<P_a_up_b_x>>, TRUE), IngestRequest(<<P_a_r, P_b_x>>, TRUE) }

\* POST /rag/ingest
rag_ingest_request ==
    /\ \E q \in IngestRequests :
          http' = Append(Awaiting(http), rag_ingest(q.paths, q.rag_enabled))
    /\ Len(Awaiting(http')) <= MaxAwaiting
    /\ ServerFrame

\* ingest_paths comes back and the handler logs and answers, or it raises
rag_ingest_request_resume ==
    /\ \E i \in 1..Len(http) :
          /\ http[i].route = "rag_ingest"
          /\ http[i].pc = "awaiting"
          /\ \/ http' = Answered([http EXCEPT ![i].events = http[i].late, ![i].late = <<>>,
                                              ![i].status = 200, ![i].pc = "done"], i)
             \/ http' = Answered([http EXCEPT ![i].late = <<>>, ![i].status = 500,
                                              ![i].pc = "done"], i)
    /\ ServerFrame

\* the ledger of the server: empty, or with grants standing, two of them
\* running out after time 1 and one stored without time zone
ServerLedgers ==
    { <<>>,
      << ApprovalRecord(Scope("skill", K_fx), NoExpiry),
         ApprovalRecord(Scope("terminal", C_git_status), NoExpiry),
         ApprovalRecord(Scope("file_read", P_b), NoExpiry),
         ApprovalRecord(Scope("skill", K_ki), Aware(1)),
         ApprovalRecord(Scope("skill", K_dev), Aware(1)),
         ApprovalRecord(Scope("file_read", P_a_r), Naive(1)) >> }

\* permissions POSTed to /config: everything on, the tools switch off, the
\* switch on with empty lists
ServerConfigs ==
    { PermissionConfig(TRUE, TRUE, TRUE), PermissionConfig(FALSE, TRUE, TRUE),
      PermissionConfig(TRUE, FALSE, FALSE) }

\* POST /config stores other permissions
config_posted ==
    /\ \E c \in ServerConfigs : c # config /\ config' = c
    /\ UNCHANGED <<approvals, clock, decision, ledger_calls, serverVars,
                   symlinks, skillVars, auditVars, managerVars>>

InitServer ==
    /\ config \in ServerConfigs
    /\ approvals \in ServerLedgers
    /\ clock \in {0, MaxTime}
    /\ symlinks = DirB
    /\ decision = NoDecision
    /\ files = InitialFiles
    /\ audit_log = <<>>
    /\ spawned = <<>>
    /\ call = IdleCall
    /\ AuditAtRest
    /\ ServerAtRest
    /\ ledger_calls = <<>>
    /\ skills_dir = BundledTree
    /\ manager = [state |-> "ready", exc |-> "", manifests |-> _load_manifests(BundledTree).manifests]
    /\ invocations = <<>>
    /\ factory_calls = <<>>

NextServer ==
    \/ skills_run_request
    \/ skills_run_resume
    \/ rag_ingest_request
    \/ rag_ingest_request_resume
    \/ config_posted

SpecServer == InitServer /\ [][NextServer]_vars

----------------------------------------------------------------------------
(* Properties of the gated endpoints *)

\* the grant has not passed at time t
UnexpiredAt(r, t) ==
    \/ r.expires_at.kind = "none"
    \/ r.expires_at.kind = "aware" /\ r.expires_at.t >= t

Exchanges == { http[i] : i \in 1..Len(http) }

\* C31: an exchange handled while the stored permissions have tools_enabled
\* false runs no skill and is answered 403 when it names one, has each of its
\* path checks and context checks denied, and never reaches an ingest; every
\* handler works on the permissions stored when it came in, whatever grants
\* stand; and the context of an invocation keeps the permissions it was built
\* with when the stored ones change under it.
C31_ConfigTakesEffect ==
    \A x \in Exchanges :
        /\ x.cfg = x.stored
        /\ x.inv.loaded => x.context.permissions = x.stored
        /\ ~x.stored.tools_enabled =>
              /\ \A k \in 1..Len(x.checks) : ~x.checks[k].raised /\ ~x.checks[k].allowed
              /\ ~x.inv.loaded
              /\ x.argvs = <<>>
              /\ (x.route = "skills_run" /\ x.name # <<>>) =>
                    x.status = 403 /\ ~x.check.allowed
              /\ (x.route = "skills_run" /\ x.name = <<>>) => x.status = 400
              /\ (x.route = "rag_ingest" /\ x.paths # <<>>) =>
                    x.status = 403 /\ (x.rag_enabled => Len(x.checks) = 1)

\* knowledge_ingest was let in on its grant and is still at its await with a
\* context built on tools_enabled true; the tools were then switched off, and
\* dev_assistant, its own grant standing and unexpired, was answered 403
C31_Witness ==
    /\ Len(http) = 2
    /\ http[1].name = K_ki /\ http[1].pc = "awaiting"
    /\ http[1].context.permissions.tools_enabled
    /\ ~config.tools_enabled
    /\ http[2].name = K_dev /\ http[2].status = 403 /\ ~http[2].stored.tools_enabled
    /\ \E k \in 1..Len(approvals) :
          approvals[k].scope = Scope("skill", K_dev) /\ UnexpiredAt(approvals[k], clock)

\* check_skill allows: tools enabled, and the name enabled or under a grant
\* that has not passed
Permitted(x) ==
    /\ x.cfg.tools_enabled
    /\ \/ InList(x.name, x.cfg.skills_enabled)
       \/ \E k \in 1..Len(approvals) :
             approvals[k].scope = Scope("skill", x.name) /\ UnexpiredAt(approvals[k], x.at)

\* C32: POST /skills/run loads and runs a skill's code only when check_skill on
\* the permissions loaded for the request allows the name; a request it denies
\* is answered 403 with no skill code run, nothing spawned and no audit event.
C32_SkillGate ==
    \A x \in Exchanges :
        x.route = "skills_run" =>
            /\ x.inv.loaded => Permitted(x) /\ x.check.allowed
            /\ (x.name # <<>> /\ ~x.check.raised /\ ~Permitted(x)) =>
                  /\ x.status = 403
                  /\ ~x.inv.loaded /\ ~x.inv.called
                  /\ x.events = <<>> /\ x.argvs = <<>> /\ x.late = <<>>

\* dev_assistant asked for with the tools on, the name not enabled and its
\* grant run out: 403, nothing run, nothing logged
C32_Witness ==
    \E x \in Exchanges :
        /\ x.route = "skills_run" /\ x.name = K_dev
        /\ x.cfg.tools_enabled /\ ~InList(K_dev, x.cfg.skills_enabled)
        /\ \E k \in 1..Len(approvals) : approvals[k].scope = Scope("skill", K_dev)
        /\ x.status = 403 /\ ~x.inv.loaded /\ x.events = <<>>

\* the exchange ran a skill whose run handed back a value that is no ToolResult
\* and that json.dumps takes
HandedBackValue(x) ==
    x.route = "skills_run" /\ x.inv.called /\ x.inv.pc = "returned" /\ x.outcome.kind = "value"

Unsupported == Dict(<< Item(K_success, Bool(FALSE)), Item(K_error, Str(E_unsupported)) >>)

\* C34: whatever JSON-serializable value that is no ToolResult a skill's run
\* hands back, run reports success=true with the value's JSON text as output;
\* so dev_assistant and file_explorer asked for an action they do not have,
\* and file_explorer denied a listing, come back as successes, answered 200.
C34_PlainDictsSucceed ==
    \A x \in Exchanges :
        /\ HandedBackValue(x) =>
              /\ x.inv.result = ToolResult(TRUE, Some(Dumps(x.outcome.v)), None, <<>>)
              /\ x.status = 200
        /\ (x.route = "skills_run" /\ x.inv.called /\ x.name \in {K_dev, K_fx}
               /\ Get(x.args, K_action, Str(<<>>)) = Str(T_bogus)) =>
              /\ x.outcome = ReturnsValue(Unsupported)
              /\ x.inv.result.success
        /\ (x.route = "skills_run" /\ x.inv.called /\ x.name = K_fx
               /\ Get(x.args, K_action, Str(T_list)) = Str(T_list)
               /\ Len(x.checks) = 1 /\ ~x.checks[1].raised /\ ~x.checks[1].allowed) =>
              /\ HandedBackValue(x)
              /\ Get(x.outcome.v, K_success, Null) = Bool(FALSE)
              /\ x.inv.result.success

\* dev_assistant asked for an action it does not have: the caller gets
\* success=true around the text of {"success": false, "error": ...}
C34_Witness ==
    \E x \in Exchanges :
        /\ x.name = K_dev
        /\ x.outcome = ReturnsValue(Unsupported)
        /\ x.inv.result.success
        /\ x.inv.result.output = Some(Dumps(Unsupported))
        /\ x.status = 200

====
